---- MODULE Spec2Model ----
(***************************************************************************)
(* Model of cloudformer's template string parser                           *)
(* (src/cloudformer/templates/string_parser.py).                           *)
(*                                                                         *)
(* StringParser.parse_string reads a scalar line by line; each line is    *)
(* scanned for the matches of PARSE_STR_RE and every match is handled      *)
(* against a stack of open block functions.  The scalar is the input: its  *)
(* lines are revealed one at a time (ReadLine), which is the same as       *)
(* drawing the whole scalar from a bounded set, because the parser reads   *)
(* strictly left to right.                                                 *)
(*                                                                         *)
(* A line is written as a sequence of pieces: literal text, or the source  *)
(* text of one token together with the groups PARSE_STR_RE gives for it.   *)
(* The text s of the line is the concatenation of the pieces' texts; the   *)
(* regular-expression engine is library code, and Matches gives what       *)
(* finditer returns on s.                                                  *)
(***************************************************************************)
EXTENDS Integers, Sequences, FiniteSets, TLC

VARIABLES
    pc,            \* position in parse_string: "start", "lines", "line", "done", "error"
    lines,         \* the lines of s.splitlines(True) read so far, sentinel line included
    process_func,  \* parse_string's process_func: "None" or "Fn::Base64"
    func_stack,    \* parse_string's func_stack: the frames, root first
    mi,            \* _parse_line: number of matches of the current line already handled
    prev,          \* _parse_line's prev (0-based offset in the current line)
    result,        \* what parse_string returned, NoResult before that
    error,         \* the exception parse_string raised, NoError before that
    unmatched,     \* history: a close marker ran while no block function was open
    \* TemplateReader and its TemplateState
    rpc,           \* position in the document stream: "vars", "macros", "doc", "macro", "error"
    ventries,      \* the entries of the !vars documents read so far
    variables,     \* template_state.variables
    outer,         \* history: the variable table as the !vars documents left it
    macros,        \* template_state.macros
    rdoc,          \* reader.doc
    call,          \* the macro call being expanded
    rerror,        \* the error that ended the load, NoError before that
    \* TemplateCompiler (src/cloudpuff/templates/compiler.py)
    cpc,           \* position in load_string: "none" before the compiler is constructed
    for_amis,      \* self.for_amis
    doc,           \* self.doc
    meta,          \* self.meta
    ami_outputs,   \* self.ami_outputs
    stack_param_lookups,  \* self.stack_param_lookups
    required_params,      \* self.required_params
    if_conditions, \* reader.template_state.if_conditions
    cerror,        \* the exception load_string raised, NoError before that
    loads,         \* history: the number of load_string calls made on the compiler
    tags           \* the last call of get_tags: its parameters, what it returned or raised

parser_vars == <<pc, lines, process_func, func_stack, mi, prev, result, error, unmatched>>
reader_vars == <<rpc, ventries, variables, outer, macros, rdoc, call, rerror>>
compiler_vars == <<cpc, for_amis, doc, meta, ami_outputs, stack_param_lookups,
                   required_params, if_conditions, cerror, loads, tags>>
vars == <<parser_vars, reader_vars, compiler_vars>>

(***************************************************************************)
(* Bounds of the model.                                                    *)
(***************************************************************************)
\* Lines of a scalar of block tokens (Spec).
MaxLines == 7
\* Pieces (literals and tokens) of a scalar of inline text (SpecText).
MaxPieces == 4
\* Tokens and parameters of a scalar of function tokens (SpecFunc): a line
\* counts for one plus the number of parameters of its function.
MaxFuncPieces == 4
\* Pieces (texts and block tokens) of a scalar of conditionals (SpecCond).
MaxCondPieces == 4
\* Entries of !vars documents and macro calls of a document stream (SpecReader).
MaxReaderEntries == 3
\* Parameters and resources of a template (SpecCompile).
MaxTemplateEntries == 2
\* Tags of the Meta of a template (SpecTags).
MaxTags == 2
\* Parameters and resources of a template loaded on a compiler that is used
\* again (SpecReload).
MaxReloadEntries == 1
\* load_string calls on one compiler (SpecReload).
MaxLoads == 2

(***************************************************************************)
(* Values.  Python values of different types are tagged records:           *)
(*   "str"  a string            "dict" a one-key dict {k: v}               *)
(*   "var"  a VarReference      "list" a list, cls its class               *)
(*   "item" a StringParserStackItem (cls "Item") or a function             *)
(***************************************************************************)
Str(s) == [t |-> "str", v |-> s]
Dict(key, val) == [t |-> "dict", k |-> key, v |-> val]
List(cls, items) == [t |-> "list", cls |-> cls, items |-> items]
VarReference(name) == [t |-> "var", name |-> name]
RefNode(name) == Dict("Ref", Str(name))

NoResult == [t |-> "none"]
\* None of Python
PyNone == [t |-> "None"]
NoError == [cls |-> "", msg |-> ""]
ConstructorError(msg) == [cls |-> "ConstructorError", msg |-> msg]
\* The exception of self[-1] and of pop() on an empty list.
IndexError == [cls |-> "IndexError", msg |-> ""]

\* StringParserStackItem.__init__ / Function.__init__ / IfBlockFunction.__init__
NewItem(cls, func_name, params) ==
    [t |-> "item", cls |-> cls, func_name |-> func_name, params |-> params,
     contents |-> <<>>, pop_count |-> 1,
     is_elseif |-> FALSE, if_true |-> <<>>, if_false |-> <<>>, cur |-> "true"]

RootItem == NewItem("Item", "", <<>>)

IsFunction(c) == c.t = "item" /\ c.cls # "Item"

\* StringParser.FUNCTIONS.get(func_name, BlockFunction)
FunctionClass(func_name) ==
    IF func_name \in {"If", "ElseIf"} THEN "If"
    ELSE IF func_name = "Else" THEN "Else"
    ELSE "Block"

(***************************************************************************)
(* Pieces of a line and the matches of PARSE_STR_RE on it.                 *)
(***************************************************************************)
Piece(k, text, name, params, open) ==
    [k |-> k, text |-> text, name |-> name, params |-> params, open |-> open]

Lit(text) == Piece("lit", text, "", <<>>, FALSE)

RECURSIVE JoinTexts(_, _)
JoinTexts(ls, sep) ==
    IF ls = <<>> THEN ""
    ELSE IF Len(ls) = 1 THEN ls[1]
    ELSE ls[1] \o sep \o JoinTexts(Tail(ls), sep)

RECURSIVE LineText(_)
LineText(l) == IF l = <<>> THEN "" ELSE l[1].text \o LineText(Tail(l))

\* <% Name(p1, p2) { %> : params is the sequence of the parameters' lines
\* (what FUNC_PARAM_RE.split gives), <<>> when the token has no "(...)".
FuncTok(name, params, open, nl) ==
    Piece("func",
          "<% " \o name
            \o (IF params = <<>> THEN ""
                ELSE " (" \o JoinTexts([i \in 1..Len(params) |-> LineText(params[i])], ", ") \o ")")
            \o (IF open THEN " {" ELSE "") \o " %>" \o (IF nl THEN "\n" ELSE ""),
          name, params, open)

CloseTok(nl) == Piece("close", "<% } %>" \o (IF nl THEN "\n" ELSE ""), "", <<>>, FALSE)

\* @@Name or @@{Name}
RefTok(name, brace) ==
    Piece("ref", IF brace THEN "@@{" \o name \o "}" ELSE "@@" \o name, name, <<>>, brace)

\* $$name or $${path}
VarTok(name, brace) ==
    Piece("var", IF brace THEN "$${" \o name \o "}" ELSE "$$" \o name, name, <<>>, brace)

RECURSIVE Offset(_, _)
\* Offset in the line's text of piece i (0-based, as m.start()).
Offset(l, i) == IF i = 1 THEN 0 ELSE Offset(l, i - 1) + Len(l[i - 1].text)

\* PARSE_STR_RE.finditer(s): one match per token piece, in order.
Matches(l) ==
    LET idx == SelectSeq([i \in 1..Len(l) |-> i], LAMBDA i : l[i].k # "lit")
    IN [j \in 1..Len(idx) |->
          [start |-> Offset(l, idx[j]),
           end |-> Offset(l, idx[j]) + Len(l[idx[j]].text),
           groups |-> l[idx[j]]]]

\* s[a:b] of Python, for 0 <= a <= b <= len(s)
Slice(s, a, b) == SubSeq(s, a + 1, b)

IsSpace(ch) == ch \in {" ", "\n", "\t"}

RECURSIVE LStrip(_)
LStrip(s) ==
    IF Len(s) > 0 /\ IsSpace(SubSeq(s, 1, 1)) THEN LStrip(SubSeq(s, 2, Len(s))) ELSE s

RECURSIVE RStrip(_)
RStrip(s) ==
    IF Len(s) > 0 /\ IsSpace(SubSeq(s, Len(s), Len(s)))
    THEN RStrip(SubSeq(s, 1, Len(s) - 1)) ELSE s

\* str.strip()
Strip(s) == RStrip(LStrip(s))

EndsWithNewline(s) == Len(s) > 0 /\ SubSeq(s, Len(s), Len(s)) = "\n"

(***************************************************************************)
(* TemplateState (cloudformer/templates/state.py), as far as               *)
(* normalize_content uses it.  With resolve_variables=False and an empty   *)
(* variable table, process_tree leaves the content as it is, and           *)
(* normalize_vars_list marks a list of strings and variable references     *)
(* that holds at least one unresolved reference as a VarsStringsList.      *)
(***************************************************************************)
ProcessTree(content) == content

NormalizeVarsList(l) ==
    IF /\ \E i \in 1..Len(l.items) : l.items[i].t = "var"
       /\ \A i \in 1..Len(l.items) : l.items[i].t \in {"str", "var"}
    THEN List("VarsStringsList", l.items)
    ELSE l

\* collapse_variables(parts), used for a parameter of several parts
CollapseVariables(parts) == NormalizeVarsList(List("list", parts))

(***************************************************************************)
(* Serialization.                                                          *)
(***************************************************************************)
\* bool(x) of Python for the values a normalized content can be
Truthy(x) ==
    CASE x.t = "str" -> x.v # ""
      [] x.t = "list" -> x.items # <<>>
      [] x.t = "map" -> DOMAIN x.m # {}
      [] x.t = "None" -> FALSE
      [] OTHER -> TRUE

RECURSIVE Serialize(_)
RECURSIVE NormalizeContent(_)
RECURSIVE NormalizeFunctionContents(_)

\* isinstance(x, list) and the splice of IfBlockFunction.normalize_function_contents
Splice(x) == IF x.t = "list" THEN x.items ELSE <<x>>

\* Variant of Wrap that joins a VarsStringsList like any other list
WrapJoinAlways(content) ==
    IF Len(content.items) = 1 THEN content.items[1]
    ELSE IF Len(content.items) > 1
    THEN Dict("Fn::Join", List("list", <<Str(""), content>>))
    ELSE content

\* StringParserStackItem.normalize_content: the final step on a list
Wrap(content) ==
    IF Len(content.items) = 1 THEN content.items[1]
    ELSE IF Len(content.items) > 1 /\ content.cls # "VarsStringsList"
    THEN Dict("Fn::Join", List("list", <<Str(""), content>>))
    ELSE content

NormalizeContent(content) ==
    LET c1 == IF content.t = "item" THEN Serialize(content) ELSE content
    IN IF c1.t = "list"
       THEN LET c2 == List("list", [i \in 1..Len(c1.items) |-> NormalizeContent(c1.items[i])])
            IN Wrap(NormalizeVarsList(ProcessTree(c2)))
       ELSE c1

\* IfBlockFunction.normalize_function_contents (its argument, self.contents, is unused)
NormalizeFunctionContents(self) ==
    LET if_true_content == NormalizeContent(List("list", self.if_true))
        if_false_content == NormalizeContent(List("list", self.if_false))
    IN Splice(if_true_content)
       \o (IF Truthy(if_false_content) THEN Splice(if_false_content) ELSE <<>>)

\* StringParserStackItem.serialize, BlockFunction.serialize with
\* normalize_function_name and normalize_function_contents of the class
Serialize(self) ==
    CASE self.cls = "Item" ->
           List("list", [i \in 1..Len(self.contents) |-> NormalizeContent(self.contents[i])])
      [] self.cls = "If" ->
           Dict("Fn::If",
                List("UncollapsibleList", self.params \o NormalizeFunctionContents(self)))
      [] OTHER ->
           Dict("Fn::" \o self.func_name,
                List("UncollapsibleList",
                     self.params
                       \o [i \in 1..Len(self.contents) |-> NormalizeContent(self.contents[i])]))

(***************************************************************************)
(* add_content.  The result holds the frame after the call, the content    *)
(* after the call (an ElseIf is rewritten in place), the return value and  *)
(* the exception raised, if any.                                           *)
(***************************************************************************)
Added(self, content, ret, err) ==
    [self |-> self, content |-> content, ret |-> ret, err |-> err]

\* StringParserStackItem.add_content, inherited by BlockFunction and ElseBlockFunction
ItemAddContent(self, content) ==
    Added([self EXCEPT !.contents = Append(@, content)], content, IsFunction(content), NoError)

\* Variant of AppendCur that never leaves the if-true list
AppendTrue(self, content) == [self EXCEPT !.if_true = Append(@, content)]

\* self._cur_content.append(content)
AppendCur(self, content) ==
    IF self.cur = "true"
    THEN [self EXCEPT !.if_true = Append(@, content)]
    ELSE [self EXCEPT !.if_false = Append(@, content)]

\* Variant of AsElseIf that keeps the parent's pop_count
AsElseIfSamePop(self, content) ==
    [content EXCEPT !.func_name = "If", !.pop_count = self.pop_count, !.is_elseif = TRUE]

\* Variant of AsElseIf that counts one pop too many
AsElseIfExtraPop(self, content) ==
    [content EXCEPT !.func_name = "If", !.pop_count = self.pop_count + 2, !.is_elseif = TRUE]

\* The ElseIf branch of IfBlockFunction.add_content
AsElseIf(self, content) ==
    [content EXCEPT !.func_name = "If", !.pop_count = self.pop_count + 1, !.is_elseif = TRUE]

\* IfBlockFunction.add_content
IfAddContent(self, content) ==
    IF IsFunction(content) /\ content.func_name \in {"Else", "ElseIf"}
    THEN IF self.if_true = <<>>
         THEN Added(self, content, FALSE,
                    ConstructorError("Found " \o content.func_name
                                       \o " without a \"true\" value in the If"))
         ELSE IF self.if_false # <<>>
         THEN Added(self, content, FALSE,
                    ConstructorError("Found " \o content.func_name \o " after an Else"))
         ELSE IF content.func_name = "Else"
         THEN Added([self EXCEPT !.cur = "false"], content, FALSE, NoError)
         ELSE LET c == AsElseIf(self, content)
              IN Added(AppendCur([self EXCEPT !.cur = "false"], c), c, TRUE, NoError)
    ELSE Added(AppendCur(self, content), content, TRUE, NoError)

AddContent(self, content) ==
    IF self.cls = "If" THEN IfAddContent(self, content) ELSE ItemAddContent(self, content)

(***************************************************************************)
(* The stack.  A handler's result is the stack after it and the exception  *)
(* it raised.  A function pushed on the stack is the same object as the    *)
(* one added to its parent's contents: the frame on the stack is the       *)
(* object, and popping it writes it back over the copy its parent holds    *)
(* (the last element of the list the parent was appending to).             *)
(***************************************************************************)
Out(stack, err) == [stack |-> stack, err |-> err]

Current(stack) == stack[Len(stack)]

\* stack.current.add_content(content)
StackAdd(stack, content) ==
    IF stack = <<>> THEN Added(RootItem, content, FALSE, IndexError)
    ELSE AddContent(Current(stack), content)

AddLiteral(stack, text) ==
    LET a == StackAdd(stack, Str(text))
    IN IF a.err # NoError THEN Out(stack, a.err)
       ELSE Out([stack EXCEPT ![Len(stack)] = a.self], NoError)

WriteBack(parent, child) ==
    IF parent.cls = "If"
    THEN IF parent.cur = "true"
         THEN [parent EXCEPT !.if_true[Len(parent.if_true)] = child]
         ELSE [parent EXCEPT !.if_false[Len(parent.if_false)] = child]
    ELSE [parent EXCEPT !.contents[Len(parent.contents)] = child]

\* stack.pop()
Pop(stack) ==
    LET n == Len(stack)
    IN IF n = 1 THEN <<>>
       ELSE [i \in 1..(n - 1) |->
               IF i = n - 1 THEN WriteBack(stack[i], stack[n]) ELSE stack[i]]

RECURSIVE PopN(_, _)
PopN(stack, n) ==
    IF n = 0 THEN Out(stack, NoError)
    ELSE IF stack = <<>> THEN Out(stack, IndexError)
    ELSE PopN(Pop(stack), n - 1)

\* StringParser._handle_func_block_close
PopCount(stack) == Current(stack).pop_count

HandleFuncBlockClose(stack) ==
    IF stack = <<>> THEN Out(stack, IndexError)
    ELSE PopN(stack, PopCount(stack))

\* StringParser._handle_ref_name
HandleRefName(groups, stack) ==
    LET a == StackAdd(stack, RefNode(groups.name))
    IN IF a.err # NoError THEN Out(stack, a.err)
       ELSE Out([stack EXCEPT ![Len(stack)] = a.self], NoError)

\* Variant of HandleVar that rejects a variable that is not defined
HandleVarDefinedOnly(stack, var_name) ==
    Out(stack, ConstructorError("Undefined variable " \o var_name))

\* StringParser._handle_var
HandleVar(stack, var_name) ==
    LET a == StackAdd(stack, VarReference(var_name))
    IN IF a.err # NoError THEN Out(stack, a.err)
       ELSE Out([stack EXCEPT ![Len(stack)] = a.self], NoError)

\* Variant of Validate: Function.validate for every class
NoValidate(func, stack) == NoError

\* IfBlockFunction.validate, ElseBlockFunction.validate, Function.validate
Validate(func, stack) ==
    CASE func.cls = "If" ->
           IF func.is_elseif /\ Current(stack).cls # "If"
           THEN ConstructorError("Found ElseIf without a matching If or ElseIf")
           ELSE NoError
      [] func.cls = "Else" ->
           IF Current(stack).cls # "If"
           THEN ConstructorError("Found Else without a matching If")
           ELSE NoError
      [] OTHER -> NoError

RECURSIVE ParseMatches(_, _, _, _, _)
RECURSIVE HandleMatch(_, _, _, _)
RECURSIVE HandleFunc(_, _)
RECURSIVE ParseParam(_)

\* Variant of ParseParam that takes the parameter as text, unparsed
ParseParamAsText(l) == [val |-> Str(LineText(l)), err |-> NoError]

\* _parse_line(value) without a stack: the value of one parameter
ParseParam(l) ==
    LET r == ParseMatches(<<RootItem>>, LineText(l), Matches(l), 1, 0)
    IN IF r.err # NoError THEN [val |-> NoResult, err |-> r.err]
       ELSE IF r.stack = <<>> THEN [val |-> NoResult, err |-> IndexError]
       ELSE LET parts == Current(r.stack).contents
            IN IF Len(parts) > 1 THEN [val |-> CollapseVariables(parts), err |-> NoError]
               ELSE IF Len(parts) = 0 THEN [val |-> NoResult, err |-> IndexError]
               ELSE [val |-> parts[1], err |-> NoError]

\* StringParser._handle_func
HandleFunc(groups, stack) ==
    IF stack = <<>> THEN Out(stack, IndexError)
    ELSE
    LET cur_stack == Current(stack)
        parsed == [i \in 1..Len(groups.params) |-> ParseParam(groups.params[i])]
        bad == {i \in 1..Len(parsed) : parsed[i].err # NoError}
        norm_params == [i \in 1..Len(parsed) |-> parsed[i].val]
        func == NewItem(FunctionClass(groups.name), groups.name, norm_params)
        verr == Validate(func, stack)
        a == AddContent(cur_stack, func)
        added == [stack EXCEPT ![Len(stack)] = a.self]
    IN IF bad # {} THEN Out(stack, parsed[CHOOSE i \in bad : \A j \in bad : i <= j].err)
       ELSE IF verr # NoError THEN Out(stack, verr)
       ELSE IF a.err # NoError THEN Out(stack, a.err)
       ELSE IF a.ret /\ groups.open THEN Out(Append(added, a.content), NoError)
       ELSE Out(added, NoError)

\* if start > 0: the text before the match is added
LiteralStart(start, p) == start > 0

\* One iteration of the loop over the matches in _parse_line
HandleMatch(stack, s, p, m) ==
    LET lit == IF LiteralStart(m.start, p)
               THEN AddLiteral(stack, Slice(s, p, m.start))
               ELSE Out(stack, NoError)
    IN IF lit.err # NoError THEN lit
       ELSE CASE m.groups.k = "func" -> HandleFunc(m.groups, lit.stack)
              [] m.groups.k = "close" -> HandleFuncBlockClose(lit.stack)
              [] m.groups.k = "ref" -> HandleRefName(m.groups, lit.stack)
              [] OTHER -> HandleVar(lit.stack, m.groups.name)

\* Variant of MatchEnd that leaves prev at the start of the match
MatchEndAtStart(m) == m.start

\* prev = m.end()
MatchEnd(m) == m.end

\* Variant of TrailingLiteral that drops the text after the last match
TrailingLiteralDropped(stack, s, p) == Out(stack, NoError)

\* The text after the last match
TrailingLiteral(stack, s, p) ==
    IF p # Len(s) THEN AddLiteral(stack, Slice(s, p, Len(s))) ELSE Out(stack, NoError)

\* _parse_line from match i on, with prev = p
ParseMatches(stack, s, ms, i, p) ==
    IF i > Len(ms) THEN TrailingLiteral(stack, s, p)
    ELSE LET r == HandleMatch(stack, s, p, ms[i])
         IN IF r.err # NoError THEN r
            ELSE ParseMatches(r.stack, s, ms, i + 1, MatchEnd(ms[i]))

(***************************************************************************)
(* The scalars parsed.  Texts and names carry the number of the line or    *)
(* piece they stand at, so that every content of the result is told apart. *)
(***************************************************************************)
NumStr(n) ==
    IF n \in 1..9 THEN <<"1", "2", "3", "4", "5", "6", "7", "8", "9">>[n] ELSE "n"

RECURSIVE PieceCount(_)
PieceCount(ls) == IF ls = <<>> THEN 0 ELSE Len(ls[1]) + PieceCount(Tail(ls))

\* Lines of block tokens, one token or one text on each line: the n-th line
\* of the scalar is a text, an If, ElseIf or Else opening a block, or a close
\* marker; the first line may also be the block function Foo opening a block.
BlockLines(n) ==
    { <<Lit("v" \o NumStr(n) \o "\n")>>,
      <<FuncTok("If", << <<Lit("c" \o NumStr(n))>> >>, TRUE, TRUE)>>,
      <<FuncTok("ElseIf", << <<Lit("c" \o NumStr(n))>> >>, TRUE, TRUE)>>,
      <<FuncTok("Else", <<>>, TRUE, TRUE)>>,
      <<CloseTok(TRUE)>> }
      \cup (IF n = 1 THEN { <<FuncTok("Foo", <<>>, TRUE, TRUE)>> } ELSE {})

\* The pieces of inline text: the n-th piece of the scalar is a literal, a
\* reference (bare or braced) or a variable that is not defined (a name or a
\* braced path).
TextPieces(n) ==
    { Lit(" t" \o NumStr(n) \o " "),
      RefTok("R" \o NumStr(n), FALSE),
      RefTok("R" \o NumStr(n), TRUE),
      VarTok("u" \o NumStr(n), FALSE),
      VarTok("w.u" \o NumStr(n), TRUE) }

\* The sequences of k pieces numbered from n + 1, no literal next to a literal
RECURSIVE PieceSeqs(_, _)
PieceSeqs(n, k) ==
    IF k = 0 THEN {<<>>}
    ELSE {Append(l, q) : l \in PieceSeqs(n, k - 1), q \in TextPieces(n + k)}

NoTwoLiterals(l) == \A i \in 1..(Len(l) - 1) : ~(l[i].k = "lit" /\ l[i + 1].k = "lit")

\* The line with its newline: part of the final literal
WithNewline(l) ==
    IF l[Len(l)].k = "lit"
    THEN [l EXCEPT ![Len(l)] = Lit(l[Len(l)].text \o "\n")]
    ELSE Append(l, Lit("\n"))

SentinelLines == { <<Lit("__base64__\n")>>, <<Lit("  __base64__ \n")>> }

\* Lines of inline text of at most `room` pieces, after n pieces
TextLines(n, room) ==
    LET bodies == UNION { {l \in PieceSeqs(n, k) : NoTwoLiterals(l)} : k \in 1..room }
    IN (IF room > 0 THEN SentinelLines ELSE {})
         \cup bodies \cup { WithNewline(l) : l \in bodies }

\* The parameters a function token may have at position i: a text, a
\* reference, a variable, or a text followed by a reference
ParamChoices(i) ==
    { <<Lit("p" \o NumStr(i))>>,
      <<RefTok("R" \o NumStr(i), FALSE)>>,
      <<VarTok("u" \o NumStr(i), FALSE)>>,
      <<Lit("p" \o NumStr(i)), RefTok("R" \o NumStr(i), TRUE)>> }

\* The parameter lists of k parameters
RECURSIVE ParamSeqs(_)
ParamSeqs(k) ==
    IF k = 0 THEN {<<>>}
    ELSE {Append(ps, q) : ps \in ParamSeqs(k - 1), q \in ParamChoices(k)}

RECURSIVE FuncCost(_)
\* One per line and one per parameter of the line's function
FuncCost(ls) ==
    IF ls = <<>> THEN 0
    ELSE 1 + Len(ls[1][Len(ls[1])].params) + FuncCost(Tail(ls))

\* Lines of function tokens within `room`: the function Foo without a block,
\* alone on its line, after a text, or ending the scalar; and the lines that
\* open and close the blocks it may stand in.
FuncLines(room) ==
    { <<FuncTok("If", <<>>, TRUE, TRUE)>>,
      <<FuncTok("Bar", <<>>, TRUE, TRUE)>>,
      <<CloseTok(TRUE)>> }
      \cup UNION { { <<FuncTok("Foo", ps, FALSE, TRUE)>>,
                     <<FuncTok("Foo", ps, FALSE, FALSE)>>,
                     <<Lit("x "), FuncTok("Foo", ps, FALSE, TRUE)>> }
                   : ps \in UNION { ParamSeqs(k) : k \in 0..(room - 1) } }

\* The pieces of a scalar of conditionals: the n-th piece is a text, an If,
\* ElseIf or Else opening a block, or a close marker; nl tells whether the
\* piece ends its line
CondPieces(n, nl) ==
    { Lit("v" \o NumStr(n) \o (IF nl THEN "\n" ELSE "")),
      FuncTok("If", << <<Lit("c" \o NumStr(n))>> >>, TRUE, nl),
      FuncTok("ElseIf", << <<Lit("c" \o NumStr(n))>> >>, TRUE, nl),
      FuncTok("Else", <<>>, TRUE, nl),
      CloseTok(nl) }

\* The lines of k pieces numbered from n + 1: only the last piece may end the line
RECURSIVE CondSeqs(_, _)
CondSeqs(n, k) ==
    IF k = 0 THEN {<<>>}
    ELSE IF k = 1 THEN { <<q>> : q \in CondPieces(n + 1, TRUE) \cup CondPieces(n + 1, FALSE) }
    ELSE { <<q>> \o l : q \in CondPieces(n + 1, FALSE), l \in CondSeqs(n + 1, k - 1) }

\* Lines of conditionals of at most `room` pieces, after n pieces
CondLines(n, room) ==
    UNION { {l \in CondSeqs(n, k) : NoTwoLiterals(l)} : k \in 1..room }

(***************************************************************************)
(* parse_string                                                            *)
(***************************************************************************)
ParserInit ==
    /\ pc = "start"
    /\ lines = <<>>
    /\ process_func = "None"
    /\ func_stack = <<>>
    /\ mi = 0
    /\ prev = 0
    /\ result = NoResult
    /\ error = NoError
    /\ unmatched = FALSE

\* An empty dict
EmptyMap == [n \in {} |-> NoResult]

\* TemplateReader(): a TemplateState with no variable and no macro, an empty doc
ReaderInit ==
    /\ rpc = "vars"
    /\ ventries = <<>>
    /\ variables = EmptyMap
    /\ outer = EmptyMap
    /\ macros = EmptyMap
    /\ rdoc = EmptyMap
    /\ call = NoResult
    /\ rerror = NoError

\* No TemplateCompiler is constructed yet
CompilerInit ==
    /\ cpc = "none"
    /\ for_amis = FALSE
    /\ doc = PyNone
    /\ meta = PyNone
    /\ ami_outputs = <<>>
    /\ stack_param_lookups = EmptyMap
    /\ required_params = EmptyMap
    /\ if_conditions = EmptyMap
    /\ cerror = NoError
    /\ loads = 0
    /\ tags = NoResult

Init == ParserInit /\ ReaderInit /\ CompilerInit

CurLine == lines[Len(lines)]

Raise(e) ==
    /\ pc' = "error"
    /\ error' = e

\* Variant of IsSentinel that compares the line as it is
IsSentinelNoStrip(l) == LineText(l) = "__base64__"

\* The sentinel test of parse_string
IsSentinel(l) == Strip(LineText(l)) = "__base64__"

\* _parse_line is entered: the root item is pushed on an empty stack
EnterLine ==
    /\ pc' = "line"
    /\ func_stack' = IF func_stack = <<>> THEN <<RootItem>> ELSE func_stack
    /\ mi' = 0
    /\ prev' = 0

\* parse_string up to its loop, for a scalar whose first line is l; a first
\* line that is not the sentinel is the first line parsed
Start(l) ==
    /\ pc = "start"
    /\ lines' = <<l>>
    /\ IF IsSentinel(l)
       THEN /\ process_func' = "Fn::Base64"
            /\ pc' = "lines"
            /\ UNCHANGED <<func_stack, mi, prev>>
       ELSE /\ process_func' = "None"
            /\ EnterLine
    /\ UNCHANGED <<result, error, unmatched>>
    /\ UNCHANGED <<reader_vars, compiler_vars>>

\* The loop of parse_string takes the next line
ReadLine(l) ==
    /\ pc = "lines"
    /\ EndsWithNewline(LineText(CurLine))
    /\ lines' = Append(lines, l)
    /\ EnterLine
    /\ UNCHANGED <<process_func, result, error, unmatched>>
    /\ UNCHANGED <<reader_vars, compiler_vars>>

NextMatch == Matches(CurLine)[mi + 1]

\* One iteration of the loop of _parse_line over a match of kind k
HandleToken(k) ==
    /\ pc = "line"
    /\ mi < Len(Matches(CurLine))
    /\ NextMatch.groups.k = k
    /\ LET r == HandleMatch(func_stack, LineText(CurLine), prev, NextMatch)
       IN /\ func_stack' = r.stack
          /\ IF r.err # NoError
             THEN /\ Raise(r.err)
                  /\ UNCHANGED <<mi, prev, unmatched>>
             ELSE /\ mi' = mi + 1
                  /\ prev' = MatchEnd(NextMatch)
                  /\ unmatched' = (unmatched \/ (k = "close" /\ Len(func_stack) = 1))
                  /\ UNCHANGED <<pc, error>>
    /\ UNCHANGED <<lines, process_func, result>>
    /\ UNCHANGED <<reader_vars, compiler_vars>>

FuncStep == HandleToken("func")
CloseStep == HandleToken("close")
RefStep == HandleToken("ref")
VarStep == HandleToken("var")

\* The end of _parse_line: the text after the last match
EndLine ==
    /\ pc = "line"
    /\ mi = Len(Matches(CurLine))
    /\ LET r == TrailingLiteral(func_stack, LineText(CurLine), prev)
       IN /\ func_stack' = r.stack
          /\ IF r.err # NoError
             THEN Raise(r.err)
             ELSE /\ pc' = "lines"
                  /\ UNCHANGED error
    /\ UNCHANGED <<lines, process_func, mi, prev, result, unmatched>>
    /\ UNCHANGED <<reader_vars, compiler_vars>>

\* Variant of Unbalanced that lets one open block pass
UnbalancedOffByOne(stack) == Len(stack) > 2

\* len(func_stack) > 1
Unbalanced(stack) == Len(stack) > 1

\* The wrapping of the result in process_func
ApplyProcessFunc(pf, r) == IF pf # "None" THEN Dict(pf, r) ELSE r

\* The result of parse_string for the stack left by its loop
Finished(stack, pf) ==
    IF Unbalanced(stack)
    THEN [val |-> NoResult, err |-> ConstructorError("Unbalanced braces in template")]
    ELSE IF stack = <<>> THEN [val |-> NoResult, err |-> IndexError]
    ELSE [val |-> ApplyProcessFunc(pf, NormalizeContent(Current(stack))), err |-> NoError]

RECURSIVE ParseLines(_, _)
\* The loop of parse_string goes on to the next line unless the line raised
NextLine(r, rest) == IF r.err # NoError THEN r ELSE ParseLines(r.stack, rest)

\* The loop of parse_string over the lines ls, from the stack given
ParseLines(stack, ls) ==
    IF ls = <<>> THEN Out(stack, NoError)
    ELSE NextLine(ParseMatches(IF stack = <<>> THEN <<RootItem>> ELSE stack,
                               LineText(ls[1]), Matches(ls[1]), 1, 0),
                  Tail(ls))

\* parse_string after its loop r, with the process_func pf of the scalar
AfterLines(r, pf) ==
    IF r.err # NoError THEN [val |-> NoResult, err |-> r.err]
    ELSE Finished(r.stack, pf)

\* parse_string(s) as a function of the lines of s: its result or its exception
ParseString(ls) ==
    IF ls = <<>> THEN [val |-> NoResult, err |-> IndexError]
    ELSE AfterLines(ParseLines(<<>>, IF IsSentinel(ls[1]) THEN Tail(ls) ELSE ls),
                    IF IsSentinel(ls[1]) THEN "Fn::Base64" ELSE "None")

\* parse_string after its loop: the scalar has no more lines
Finish ==
    /\ pc = "lines"
    /\ LET f == Finished(func_stack, process_func)
       IN IF f.err # NoError
          THEN /\ Raise(f.err)
               /\ UNCHANGED result
          ELSE /\ result' = f.val
               /\ pc' = "done"
               /\ UNCHANGED error
    /\ UNCHANGED <<lines, process_func, func_stack, mi, prev, unmatched>>
    /\ UNCHANGED <<reader_vars, compiler_vars>>

\* Scalars of block tokens
Next ==
    \/ \E l \in BlockLines(1) : Start(l)
    \/ \E l \in BlockLines(Len(lines) + 1) : Len(lines) < MaxLines /\ ReadLine(l)
    \/ FuncStep
    \/ CloseStep
    \/ EndLine
    \/ Finish

Spec == Init /\ [][Next]_vars

\* Scalars of inline text
NextText ==
    \/ \E l \in TextLines(0, MaxPieces) : Start(l)
    \/ \E l \in TextLines(PieceCount(lines), MaxPieces - PieceCount(lines)) : ReadLine(l)
    \/ RefStep
    \/ VarStep
    \/ EndLine
    \/ Finish

SpecText == Init /\ [][NextText]_vars

\* Scalars of function tokens
NextFunc ==
    \/ \E l \in FuncLines(MaxFuncPieces) : Start(l)
    \/ \E l \in FuncLines(MaxFuncPieces - FuncCost(lines)) :
          FuncCost(lines) < MaxFuncPieces /\ ReadLine(l)
    \/ FuncStep
    \/ CloseStep
    \/ EndLine
    \/ Finish

SpecFunc == Init /\ [][NextFunc]_vars

\* Scalars of conditionals, several tokens on a line
NextCond ==
    \/ \E l \in CondLines(0, MaxCondPieces) : Start(l)
    \/ \E l \in CondLines(PieceCount(lines), MaxCondPieces - PieceCount(lines)) : ReadLine(l)
    \/ FuncStep
    \/ CloseStep
    \/ EndLine
    \/ Finish

SpecCond == Init /\ [][NextCond]_vars

(***************************************************************************)
(* TemplateReader and TemplateState (cloudformer/templates/reader.py and   *)
(* state.py), as the specification describes them (4.2, 4.3): the          *)
(* documents of a stream are read in order, the !vars documents first,     *)
(* then a !macros document, then the default document with its macro       *)
(* calls.  Every scalar goes through parse_string and then through the     *)
(* resolution of its variables.                                            *)
(***************************************************************************)
Map(m) == [t |-> "map", m |-> m]

\* The error of a macro path that is not defined
ReferenceError(path) == [cls |-> "ReferenceError", msg |-> path]

\* dict(a), updated with b: b wins
Merge(a, b) ==
    [n \in DOMAIN a \cup DOMAIN b |-> IF n \in DOMAIN b THEN b[n] ELSE a[n]]

\* lookup_variable: the value, or the placeholder when the name is not defined
LookupVariable(table, name) ==
    IF name \in DOMAIN table THEN table[name] ELSE VarReference(name)

RECURSIVE SpliceAll(_)
SpliceAll(items) ==
    IF items = <<>> THEN <<>> ELSE Splice(items[1]) \o SpliceAll(Tail(items))

RECURSIVE MergeLiterals(_)
\* Adjacent literals collapse into one
MergeLiterals(items) ==
    IF Len(items) < 2 THEN items
    ELSE IF items[1].t = "str" /\ items[2].t = "str"
    THEN MergeLiterals(<<Str(items[1].v \o items[2].v)>> \o SubSeq(items, 3, Len(items)))
    ELSE <<items[1]>> \o MergeLiterals(Tail(items))

RECURSIVE ResolveTree(_, _)
\* resolve_tree(tree, resolve_variables=True): every placeholder is replaced
\* by the value looked up, and stays a placeholder when it is not defined
ResolveTree(tree, table) ==
    CASE tree.t = "var" -> LookupVariable(table, tree.name)
      [] tree.t = "list" ->
           LET items == MergeLiterals(SpliceAll(
                            [i \in 1..Len(tree.items) |-> ResolveTree(tree.items[i], table)]))
           IN IF Len(items) = 1 THEN items[1] ELSE List(tree.cls, items)
      [] tree.t = "dict" -> Dict(tree.k, ResolveTree(tree.v, table))
      [] OTHER -> tree

\* The variables of a parsed scalar r are resolved, unless the parsing raised
Resolved(r, table) ==
    IF r.err # NoError THEN r
    ELSE [val |-> ResolveTree(r.val, table), err |-> NoError]

\* A scalar of the stream: parse_string, then the resolution of its variables
ProcessScalar(l, table) == Resolved(ParseString(<<l>>), table)

RECURSIVE SplitDots(_)
\* path.split('.')
SplitDots(s) ==
    LET dots == {i \in 1..Len(s) : SubSeq(s, i, i) = "."}
    IN IF dots = {} THEN <<s>>
       ELSE LET d == CHOOSE i \in dots : \A j \in dots : i <= j
            IN <<SubSeq(s, 1, d - 1)>> \o SplitDots(SubSeq(s, d + 1, Len(s)))

RECURSIVE LookupPath(_, _)
LookupPath(table, names) ==
    IF names = <<>> THEN table
    ELSE IF table.t # "map" THEN NoResult
    ELSE IF names[1] \notin DOMAIN table.m THEN NoResult
    ELSE LookupPath(table.m[names[1]], Tail(names))

\* lookup_macro: the definition at the dotted path, NoResult when there is none
LookupMacro(table, path) ==
    LET d == LookupPath(table, SplitDots(path))
    IN IF d.t = "macro" THEN d ELSE NoResult

\* Variant of MacroScope in which the defaults win over the call's parameters
MacroScopeDefaultsWin(defaults, overrides) == Merge(overrides, defaults)

\* The parameter scope of a call: the defaults, overridden by the call's parameters
MacroScope(defaults, overrides) == Merge(defaults, overrides)

\* Variant of RestoreOnError that leaves the table as the failed call had it
KeepOnError(saved, current) == current

\* The table put back when the rendering of a macro's content fails
RestoreOnError(saved, current) == saved

Macro(defaults, content) ==
    [t |-> "macro", defaultParams |-> defaults, content |-> content]

Entry(key, src) == [key |-> key, src |-> src]

\* The !macros document: a macro, a namespace holding a macro, and a macro
\* whose content cannot be rendered to its end (an Else outside an If)
MacroTable ==
    Map(("m" :> Macro(("x1" :> Str("d1")) @@ ("p2" :> Str("d2")),
                      <<Entry("key1", <<VarTok("x1", FALSE)>>),
                        Entry("key2", <<VarTok("p2", TRUE)>>)>>))
        @@ ("ns" :> Map("m" :> Macro(("x1" :> Str("e1")) @@ ("p2" :> Str("e2")),
                                     <<Entry("key1", <<VarTok("x1", FALSE)>>),
                                       Entry("key2", <<VarTok("p2", TRUE)>>)>>)))
        @@ ("bad" :> Macro("x1" :> Str("d1"),
                           <<Entry("key1", <<VarTok("x1", FALSE)>>),
                             Entry("key2", <<FuncTok("Else", <<>>, TRUE, FALSE)>>)>>)))

\* The values of entry n of a !vars document: a text, a variable followed by
\* a text, or a variable; the variable is that of any entry of the document
VarValues(n) ==
    { <<Lit("v" \o NumStr(n))>> }
      \cup { <<VarTok("x" \o NumStr(k), TRUE), Lit("-s" \o NumStr(n))>> : k \in 1..MaxReaderEntries }
      \cup { <<VarTok("x" \o NumStr(k), FALSE)>> : k \in 1..MaxReaderEntries }

\* The parameters a macro call may give
CallParams ==
    { EmptyMap, "p2" :> Str("o2"), "x1" :> Str("o1"),
      ("x1" :> Str("o1")) @@ ("p2" :> Str("o2")) }

\* The paths a macro call may name
CallPaths == { "m", "ns.m", "bad" }

\* Entries and calls read so far
ReaderEntries == Len(ventries) + Cardinality(DOMAIN rdoc)

\* Entry N of a !vars document, named xN: its value is resolved against the
\* table as it stands, then stored
VarsEntry(value) ==
    /\ rpc = "vars"
    /\ ReaderEntries < MaxReaderEntries
    /\ LET name == "x" \o NumStr(Len(ventries) + 1)
           r == ProcessScalar(value, variables)
       IN /\ ventries' = Append(ventries, [name |-> name, value |-> value])
          /\ IF r.err # NoError
             THEN /\ rpc' = "error"
                  /\ rerror' = r.err
                  /\ UNCHANGED <<variables, outer>>
             ELSE /\ variables' = Merge(variables, name :> r.val)
                  /\ outer' = variables'
                  /\ UNCHANGED <<rpc, rerror>>
    /\ UNCHANGED <<macros, rdoc, call>>
    /\ UNCHANGED <<parser_vars, compiler_vars>>

\* The !macros document: its entries are stored as they are
MacrosDoc(table) ==
    /\ rpc = "vars"
    /\ macros' = table
    /\ rpc' = "doc"
    /\ UNCHANGED <<ventries, variables, outer, rdoc, call, rerror>>
    /\ UNCHANGED <<parser_vars, compiler_vars>>

\* A macro call in the default document: expand_macro up to the rendering
CallMacro(path, overrides) ==
    /\ rpc = "doc"
    /\ ReaderEntries < MaxReaderEntries
    /\ LET def == LookupMacro(macros, path)
       IN IF def = NoResult
          THEN /\ rpc' = "error"
               /\ rerror' = ReferenceError(path)
               /\ UNCHANGED <<variables, call>>
          ELSE /\ call' = [path |-> path, overrides |-> overrides, def |-> def,
                           saved |-> variables, todo |-> def.content, out |-> EmptyMap,
                           key |-> "k" \o NumStr(Cardinality(DOMAIN rdoc) + 1)]
               /\ variables' = Merge(variables, MacroScope(def.defaultParams, overrides))
               /\ rpc' = "macro"
               /\ UNCHANGED rerror
    /\ UNCHANGED <<ventries, outer, macros, rdoc>>
    /\ UNCHANGED <<parser_vars, compiler_vars>>

\* The next entry of the macro's content is rendered; an error ends the load
RenderKey ==
    /\ rpc = "macro"
    /\ call.todo # <<>>
    /\ LET r == ProcessScalar(call.todo[1].src, variables)
       IN IF r.err # NoError
          THEN /\ variables' = RestoreOnError(call.saved, variables)
               /\ rpc' = "error"
               /\ rerror' = r.err
               /\ UNCHANGED call
          ELSE /\ call' = [call EXCEPT !.todo = Tail(@),
                                       !.out = Merge(@, call.todo[1].key :> r.val)]
               /\ UNCHANGED <<variables, rpc, rerror>>
    /\ UNCHANGED <<ventries, outer, macros, rdoc>>
    /\ UNCHANGED <<parser_vars, compiler_vars>>

\* expand_macro returns: the table is put back and the call replaced by the content
MacroReturn ==
    /\ rpc = "macro"
    /\ call.todo = <<>>
    /\ variables' = call.saved
    /\ rdoc' = Merge(rdoc, call.key :> Map(call.out))
    /\ rpc' = "doc"
    /\ UNCHANGED <<ventries, outer, macros, call, rerror>>
    /\ UNCHANGED <<parser_vars, compiler_vars>>

\* Document streams
NextReader ==
    \/ \E v \in VarValues(Len(ventries) + 1) : VarsEntry(v)
    \/ \E table \in {Map(EmptyMap), MacroTable} : MacrosDoc(table)
    \/ \E path \in CallPaths, overrides \in CallParams : CallMacro(path, overrides)
    \/ RenderKey
    \/ MacroReturn

SpecReader == Init /\ [][NextReader]_vars

(***************************************************************************)
(* TemplateCompiler (src/cloudpuff/templates/compiler.py).  load_string    *)
(* is followed step by step.  The template is given as the tree the reader *)
(* builds from it (reader.doc): its scalars are strings, its mappings keep *)
(* the order they were written in, which for Parameters and Resources is   *)
(* the order of the names P1, P2, ... and R1, R2, ...                      *)
(***************************************************************************)
KeyError(key) == [cls |-> "KeyError", msg |-> key]
AttributeError(attr) == [cls |-> "AttributeError", msg |-> attr]

\* TemplateCompiler.SECTIONS
SECTIONS == {"Parameters", "Mappings", "Conditions", "Resources", "Outputs"}

\* d.get(key, default)
Get(d, key, default) == IF key \in DOMAIN d THEN d[key] ELSE default

\* d without key: what d.pop(key, ...) leaves
Without(d, key) == [n \in DOMAIN d \ {key} |-> d[n]]

\* The keys of a mapping written as prefix1, prefix2, ..., in the order written
KeysInOrder(m, prefix) == [i \in 1..Cardinality(DOMAIN m) |-> prefix \o NumStr(i)]

UpperCase == "ABCDEFGHIJKLMNOPQRSTUVWXYZ"
LowerCase == "abcdefghijklmnopqrstuvwxyz"

LowerChar(c) ==
    LET I == {i \in 1..Len(UpperCase) : SubSeq(UpperCase, i, i) = c}
    IN IF I = {} THEN c ELSE LET i == CHOOSE j \in I : TRUE IN SubSeq(LowerCase, i, i)

RECURSIVE Lower(_)
\* str.lower()
Lower(s) == IF Len(s) = 0 THEN "" ELSE LowerChar(SubSeq(s, 1, 1)) \o Lower(SubSeq(s, 2, Len(s)))

\* Variant of Describe that never appends the version
DescribeWithoutVersion(m) == m["Description"].v

\* The description of load_string, for a Meta that has one
Describe(m) ==
    IF "Version" \in DOMAIN m
    THEN m["Description"].v \o " [v" \o m["Version"].v \o "]"
    ELSE m["Description"].v

\* process_tree(tree, resolve_variables=False, resolve_if_conditions=True), as
\* the specification describes it (4.2): every inline If is made a reference
\* to a named condition, and its condition is put in the named conditions
\* `conds` under a generated name.  The result is the tree and the conditions.
RECURSIVE HoistTree(_, _)
RECURSIVE HoistKeys(_, _, _)
HoistKeys(m, keys, conds) ==
    IF keys = {} THEN [tree |-> Map(m), conds |-> conds]
    ELSE LET k == CHOOSE x \in keys : TRUE
             r == HoistTree(m[k], conds)
         IN HoistKeys([m EXCEPT ![k] = r.tree], keys \ {k}, r.conds)

HoistTree(tree, conds) ==
    CASE tree.t = "map" -> HoistKeys(tree.m, DOMAIN tree.m, conds)
      [] tree.t = "dict" /\ tree.k = "Fn::If" ->
           LET name == "Condition" \o NumStr(Cardinality(DOMAIN conds) + 1)
           IN [tree |-> Dict("Fn::If", List(tree.v.cls, [tree.v.items EXCEPT ![1] = Str(name)])),
               conds |-> Merge(conds, name :> tree.v.items[1])]
      [] OTHER -> [tree |-> tree, conds |-> conds]

\* _post_process_params: the loop over the parameters `keys`, from the state
\* st (the Parameters section, the two tables, the exception raised)
RECURSIVE PostProcess(_, _)
PostProcess(st, keys) ==
    IF keys = <<>> THEN st
    ELSE LET param_name == keys[1]
             param == st.params[param_name]
         IN IF param.t # "map" THEN [st EXCEPT !.err = AttributeError("pop")]
            ELSE LET lookup_from_stack == Get(param.m, "LookupFromStack", PyNone)
                     p1 == Without(param.m, "LookupFromStack")
                     required == Get(p1, "Required", Str("true"))
                     p2 == Without(p1, "Required")
                     lookups == IF Truthy(lookup_from_stack)
                                THEN Merge(st.lookups, param_name :> lookup_from_stack)
                                ELSE st.lookups
                 IN IF required.t # "str"
                    THEN [params |-> [st.params EXCEPT ![param_name] = Map(p2)],
                          lookups |-> lookups, required |-> st.required,
                          err |-> AttributeError("lower")]
                    ELSE PostProcess(
                           [params |-> [st.params EXCEPT ![param_name] = Map(p2)],
                            lookups |-> lookups,
                            required |-> Merge(st.required,
                                               param_name :> (Lower(required.v) = "true")),
                            err |-> NoError],
                           Tail(keys))

\* The test of _scan_cloudpuff_metadata on a resource
HasCloudPuffMetadata(resource) ==
    /\ resource.t = "map"
    /\ Get(resource.m, "Type", PyNone) = Str("AWS::EC2::Instance")
    /\ LET md == Get(resource.m, "Metadata", Map(EmptyMap))
       IN md.t = "map" /\ "CloudPuff" \in DOMAIN md.m

\* ami_metadata: one ami_info per resource that asks for an AMI
RECURSIVE AMIMetadata(_, _)
AMIMetadata(resources, keys) ==
    IF keys = <<>> THEN <<>>
    ELSE LET resource == resources[keys[1]]
             rest == AMIMetadata(resources, Tail(keys))
         IN IF ~HasCloudPuffMetadata(resource) THEN rest
            ELSE LET metadata == resource.m["Metadata"].m["CloudPuff"]
                 IN IF metadata.t = "map" /\ "AMINameFormat" \in DOMAIN metadata.m
                    THEN <<[name_format |-> metadata.m["AMINameFormat"],
                            resource_name |-> keys[1],
                            previous_ami |-> Get(metadata.m, "PreviousAMI", PyNone),
                            has_previous_ami |-> "PreviousAMI" \in DOMAIN metadata.m]>> \o rest
                    ELSE rest

previous_ami_key(resource_name) == "CloudPuff" \o resource_name \o "PreviousAMI"
instance_id_key(resource_name) == "CloudPuff" \o resource_name \o "InstanceID"
name_format_key(resource_name) == "CloudPuff" \o resource_name \o "AMINameFormat"

Output(description, value) == Map(("Description" :> Str(description)) @@ ("Value" :> value))

\* The outputs created for one ami_info
AMIOutputs(metadata) ==
    LET resource_name == metadata.resource_name
    IN (instance_id_key(resource_name)
          :> Output("Instance ID for " \o resource_name, RefNode(resource_name)))
       @@ (name_format_key(resource_name)
             :> Output("Name format for the AMI for " \o resource_name, metadata.name_format))
       @@ (IF metadata.has_previous_ami
           THEN previous_ami_key(resource_name)
                  :> Output("Previous AMI ID created for " \o resource_name,
                            metadata.previous_ami)
           ELSE EmptyMap)

RECURSIVE AllAMIOutputs(_)
AllAMIOutputs(ami_metadata) ==
    IF ami_metadata = <<>> THEN EmptyMap
    ELSE Merge(AMIOutputs(ami_metadata[1]), AllAMIOutputs(Tail(ami_metadata)))

\* The entry appended to self.ami_outputs for one ami_info
AMIOutputKeys(metadata) ==
    [resource_name |-> metadata.resource_name,
     outputs |-> [previous_ami_key |-> previous_ami_key(metadata.resource_name),
                  instance_id_key |-> instance_id_key(metadata.resource_name),
                  name_format_key |-> name_format_key(metadata.resource_name)]]

\* Variant of UpdateConditions that leaves the Conditions as they were
UpdateConditionsSkipped(conditions, conds) == conditions

\* self.doc['Conditions'].update(template_state.if_conditions)
UpdateConditions(conditions, conds) == Map(Merge(conditions.m, conds))

\* Variant of DropEmptySections that keeps every section
KeepEmptySections(d) == d

\* The clean-up of load_string: the sections that are empty are deleted
DropEmptySections(d) ==
    [n \in {k \in DOMAIN d : ~(k \in SECTIONS /\ ~Truthy(d[k]))} |-> d[n]]

(***************************************************************************)
(* The templates compiled.                                                 *)
(***************************************************************************)
KeyValue == Map("key" :> Str("value"))

\* The Meta of the template of test_compiling
FullMeta ==
    "Meta" :> Map(("Description" :> Str("My description.")) @@ ("Version" :> Str("1.0")))

MetaChoices ==
    { EmptyMap,
      "Meta" :> Map(EmptyMap),
      "Meta" :> Map("Description" :> Str("My description.")),
      "Meta" :> Map("Version" :> Str("1.0")),
      FullMeta }

\* A parameter: a plain scalar, a mapping whose Default is an inline If, or a
\* mapping with or without LookupFromStack (a mapping, possibly empty) and
\* Required
LookupChoices ==
    { EmptyMap,
      "LookupFromStack" :> Map(("StackName" :> Str("net")) @@ ("OutputName" :> Str("VpcId"))),
      "LookupFromStack" :> Map(EmptyMap) }

RequiredChoices ==
    { EmptyMap, "Required" :> Str("True"), "Required" :> Str("false") }

\* An inline If as the reader leaves it in the tree: {'Fn::If': [c, a, b]}
InlineIf(c) == Dict("Fn::If", List("UncollapsibleList", <<Str(c), Str("a"), Str("b")>>))

ParameterChoices ==
    { Str("value"), Map(("Type" :> Str("String")) @@ ("Default" :> InlineIf("cp"))) }
      \cup { Map(("Type" :> Str("String")) @@ l @@ r) : l \in LookupChoices, r \in RequiredChoices }

Instance(metadata) ==
    Map(("Type" :> Str("AWS::EC2::Instance")) @@ metadata)

CloudPuff(m) == "Metadata" :> Map("CloudPuff" :> Map(m))

\* A resource: a plain scalar, an instance without metadata, with CloudPuff
\* metadata (empty, with AMINameFormat, with AMINameFormat and PreviousAMI),
\* an instance with an inline If, or a bucket with CloudPuff metadata
ResourceChoices ==
    { Str("value"),
      Instance(EmptyMap),
      Instance(CloudPuff(EmptyMap)),
      Instance(CloudPuff("AMINameFormat" :> Str("fmt"))),
      Instance(CloudPuff(("AMINameFormat" :> Str("fmt")) @@ ("PreviousAMI" :> Str("ami-1")))),
      Instance("ImageId" :> InlineIf("c")),
      Map(("Type" :> Str("AWS::S3::Bucket")) @@ CloudPuff("AMINameFormat" :> Str("fmt"))) }

\* The section `name` of n entries prefix1 .. prefixn; no section for n = 0
SectionChoices(name, prefix, n, choices) ==
    IF n = 0 THEN {EmptyMap}
    ELSE { name :> Map(f) : f \in [{prefix \o NumStr(i) : i \in 1..n} -> choices] }

\* The other sections and the key that is no section, as in test_compiling
FullRest ==
    ("Mappings" :> KeyValue) @@ ("Conditions" :> KeyValue) @@ ("Outputs" :> KeyValue)
      @@ ("junk" :> Str("blah"))

\* The other sections, each with an inline If
IfRest ==
    ("Mappings" :> Map("key" :> InlineIf("cm")))
      @@ ("Conditions" :> Map("key" :> InlineIf("cc")))
      @@ ("Outputs" :> Map("key" :> InlineIf("co")))

RestChoices ==
    { EmptyMap,
      FullRest,
      IfRest,
      ("Mappings" :> Map(EmptyMap)) @@ ("Conditions" :> Map(EmptyMap))
        @@ ("Outputs" :> Map(EmptyMap)),
      "Outputs" :> KeyValue }

\* Meta and the other sections: each Meta with the other sections of
\* test_compiling, and each choice of the other sections with its Meta
FrameChoices ==
    { mt @@ FullRest : mt \in MetaChoices } \cup { FullMeta @@ rest : rest \in RestChoices }

Templates ==
    UNION { { frame @@ ps @@ rs :
                frame \in FrameChoices,
                ps \in SectionChoices("Parameters", "P", pr[1], ParameterChoices),
                rs \in SectionChoices("Resources", "R", pr[2], ResourceChoices) }
            : pr \in {x \in (0..MaxTemplateEntries) \X (0..MaxTemplateEntries) :
                        x[1] + x[2] <= MaxTemplateEntries} }

(***************************************************************************)
(* load_string                                                             *)
(***************************************************************************)
CRaise(e) ==
    /\ cpc' = "error"
    /\ cerror' = e

\* TemplateCompiler(for_amis)
Construct(fa) ==
    /\ cpc = "none"
    /\ cpc' = "new"
    /\ for_amis' = fa
    /\ UNCHANGED <<doc, meta, ami_outputs, stack_param_lookups, required_params,
                   if_conditions, cerror, loads, tags>>
    /\ UNCHANGED <<parser_vars, reader_vars>>

\* load_string, lines 47-68: the template is read by a new reader, with a
\* template state of its own, and the header of the document is built from
\* Meta.  The compiler is a new one or one whose last load_string returned.
LoadString(tree) ==
    /\ cpc \in {"new", "done"}
    /\ loads' = loads + 1
    /\ if_conditions' = EmptyMap
    /\ variables' = ("buildingAMIs" :> Str(IF for_amis THEN "true" ELSE "false"))
    /\ rdoc' = tree
    /\ LET header == "AWSTemplateFormatVersion" :> Str("2010-09-09")
       IN IF "Meta" \notin DOMAIN tree
          THEN /\ doc' = header
               /\ CRaise(KeyError("Meta"))
               /\ UNCHANGED meta
          ELSE /\ meta' = Merge("Name" :> PyNone, tree["Meta"].m)
               /\ doc' = IF "Description" \in DOMAIN meta'
                         THEN header @@ ("Description" :> Str(Describe(meta')))
                         ELSE header
               /\ cpc' = "sections"
               /\ UNCHANGED cerror
    /\ UNCHANGED <<for_amis, ami_outputs, stack_param_lookups, required_params, tags>>
    /\ UNCHANGED <<rpc, ventries, outer, macros, call, rerror>>
    /\ UNCHANGED parser_vars

\* load_string, lines 70-74: the five sections, empty where the template has none
CopySections ==
    /\ cpc = "sections"
    /\ doc' = Merge(doc, [section \in SECTIONS |-> Get(rdoc, section, Map(EmptyMap))])
    /\ cpc' = "conditions"
    /\ UNCHANGED <<for_amis, meta, ami_outputs, stack_param_lookups, required_params,
                   if_conditions, cerror, loads, tags>>
    /\ UNCHANGED <<parser_vars, reader_vars>>

\* load_string, lines 76-86: the inline Ifs of Conditions and Resources
\* become named conditions, which are added to Conditions
ProcessConditions ==
    /\ cpc = "conditions"
    /\ LET c == HoistTree(doc["Conditions"], if_conditions)
           r == HoistTree(doc["Resources"], c.conds)
           processed == [doc EXCEPT !["Conditions"] = c.tree, !["Resources"] = r.tree]
       IN /\ if_conditions' = r.conds
          /\ IF DOMAIN r.conds = {}
             THEN /\ doc' = processed
                  /\ cpc' = "params"
                  /\ UNCHANGED cerror
             ELSE IF c.tree.t # "map"
             THEN /\ doc' = processed
                  /\ CRaise(AttributeError("update"))
             ELSE /\ doc' = [processed EXCEPT !["Conditions"] = UpdateConditions(c.tree, r.conds)]
                  /\ cpc' = "params"
                  /\ UNCHANGED cerror
    /\ UNCHANGED <<for_amis, meta, ami_outputs, stack_param_lookups, required_params, loads, tags>>
    /\ UNCHANGED <<parser_vars, reader_vars>>

\* load_string, line 89: _post_process_params
PostProcessParams ==
    /\ cpc = "params"
    /\ IF doc["Parameters"].t # "map"
       THEN /\ CRaise(AttributeError("items"))
            /\ UNCHANGED <<doc, stack_param_lookups, required_params>>
       ELSE LET st == PostProcess([params |-> doc["Parameters"].m,
                                   lookups |-> stack_param_lookups,
                                   required |-> required_params,
                                   err |-> NoError],
                                  KeysInOrder(doc["Parameters"].m, "P"))
            IN /\ doc' = [doc EXCEPT !["Parameters"] = Map(st.params)]
               /\ stack_param_lookups' = st.lookups
               /\ required_params' = st.required
               /\ IF st.err # NoError
                  THEN CRaise(st.err)
                  ELSE /\ cpc' = "metadata"
                       /\ UNCHANGED cerror
    /\ UNCHANGED <<for_amis, meta, ami_outputs, if_conditions, loads, tags>>
    /\ UNCHANGED <<parser_vars, reader_vars>>

\* load_string, line 93: _scan_cloudpuff_metadata
ScanCloudpuffMetadata ==
    /\ cpc = "metadata"
    /\ IF doc["Resources"].t # "map"
       THEN /\ CRaise(AttributeError("items"))
            /\ UNCHANGED <<doc, ami_outputs>>
       ELSE LET ami_metadata == AMIMetadata(doc["Resources"].m,
                                            KeysInOrder(doc["Resources"].m, "R"))
            IN IF ami_metadata # <<>> /\ for_amis
               THEN IF doc["Outputs"].t # "map"
                    THEN /\ ami_outputs' = ami_outputs
                                             \o [i \in 1..Len(ami_metadata) |->
                                                   AMIOutputKeys(ami_metadata[i])]
                         /\ CRaise(AttributeError("update"))
                         /\ UNCHANGED doc
                    ELSE /\ ami_outputs' = ami_outputs
                                             \o [i \in 1..Len(ami_metadata) |->
                                                   AMIOutputKeys(ami_metadata[i])]
                         /\ doc' = [doc EXCEPT !["Outputs"] =
                                       Map(Merge(doc["Outputs"].m, AllAMIOutputs(ami_metadata)))]
                         /\ cpc' = "cleanup"
                         /\ UNCHANGED cerror
               ELSE /\ cpc' = "cleanup"
                    /\ UNCHANGED <<doc, ami_outputs, cerror>>
    /\ UNCHANGED <<for_amis, meta, stack_param_lookups, required_params, if_conditions, loads, tags>>
    /\ UNCHANGED <<parser_vars, reader_vars>>

\* load_string, lines 95-98: the sections not being used are deleted
CleanUp ==
    /\ cpc = "cleanup"
    /\ doc' = DropEmptySections(doc)
    /\ cpc' = "done"
    /\ UNCHANGED <<for_amis, meta, ami_outputs, stack_param_lookups, required_params,
                   if_conditions, cerror, loads, tags>>
    /\ UNCHANGED <<parser_vars, reader_vars>>

\* Compilations
NextCompile ==
    \/ \E fa \in BOOLEAN : Construct(fa)
    \/ cpc = "new" /\ \E tree \in Templates : LoadString(tree)
    \/ CopySections
    \/ ProcessConditions
    \/ PostProcessParams
    \/ ScanCloudpuffMetadata
    \/ CleanUp

SpecCompile == Init /\ [][NextCompile]_vars

\* The templates loaded on a compiler that is used again: Meta and the other
\* sections of test_compiling, with parameters and resources
ReloadTemplates ==
    UNION { { FullMeta @@ FullRest @@ ps @@ rs :
                ps \in SectionChoices("Parameters", "P", pr[1], ParameterChoices),
                rs \in SectionChoices("Resources", "R", pr[2], ResourceChoices) }
            : pr \in {x \in (0..MaxReloadEntries) \X (0..MaxReloadEntries) :
                        x[1] + x[2] <= MaxReloadEntries} }

\* Compilations on one compiler, one after the other
NextReload ==
    \/ \E fa \in BOOLEAN : Construct(fa)
    \/ cpc \in {"new", "done"} /\ loads < MaxLoads
          /\ \E tree \in ReloadTemplates : LoadString(tree)
    \/ CopySections
    \/ ProcessConditions
    \/ PostProcessParams
    \/ ScanCloudpuffMetadata
    \/ CleanUp

SpecReload == Init /\ [][NextReload]_vars

(***************************************************************************)
(* get_tags                                                                *)
(***************************************************************************)
InvalidTagError(tag_name) == [cls |-> "InvalidTagError", msg |-> tag_name]

\* isinstance(tag_value, dict) and 'Ref' in tag_value
IsRef(tag_value) ==
    \/ tag_value.t = "dict" /\ tag_value.k = "Ref"
    \/ tag_value.t = "map" /\ "Ref" \in DOMAIN tag_value.m

\* tag_value['Ref']
RefName(tag_value) == IF tag_value.t = "dict" THEN tag_value.v.v ELSE tag_value.m["Ref"].v

\* six.text_type(x), for a text and for None
TextType(x) == IF x.t = "str" THEN x ELSE Str("None")

RECURSIVE TagsLoop(_, _, _, _)
\* The loop of get_tags over the tags `keys` of Meta, from the tags made so far
TagsLoop(written, params, keys, made) ==
    IF keys = <<>> THEN [val |-> made, err |-> NoError]
    ELSE LET tag_name == keys[1]
             tag_value == written[tag_name]
         IN IF IsRef(tag_value) /\ RefName(tag_value) \notin DOMAIN params
            THEN [val |-> NoResult, err |-> KeyError(RefName(tag_value))]
            ELSE LET value == IF IsRef(tag_value) THEN params[RefName(tag_value)]
                              ELSE tag_value
                 IN IF value.t # "str"
                    THEN [val |-> NoResult, err |-> InvalidTagError(tag_name)]
                    ELSE TagsLoop(written, params, Tail(keys), Merge(made, tag_name :> value))

\* get_tags(params) on the Meta m: the tags returned or the exception raised
TagsOf(m, params) ==
    LET made == ("GenericStackName" :> m["Name"])
                  @@ (IF "Version" \in DOMAIN m
                      THEN "StackVersion" :> TextType(m["Version"]) ELSE EmptyMap)
        written == Get(m, "Tags", Map(EmptyMap))
    IN IF written.t # "map" THEN [val |-> NoResult, err |-> AttributeError("items")]
       ELSE TagsLoop(written.m, params, KeysInOrder(written.m, "T"), made)

\* get_tags(params), on a compiler whose load_string has returned
GetTags(params) ==
    /\ cpc = "done"
    /\ tags' = [params |-> params, val |-> TagsOf(meta, params).val,
                err |-> TagsOf(meta, params).err]
    /\ UNCHANGED <<cpc, for_amis, doc, meta, ami_outputs, stack_param_lookups,
                   required_params, if_conditions, cerror, loads>>
    /\ UNCHANGED <<parser_vars, reader_vars>>

\* The value of a tag: a text, a reference to the parameter Env, or a list
TagValues == { Str("prod"), RefNode("Env"), List("list", <<Str("a")>>) }

\* The Tags of Meta: none, a text in place of the mapping, or n tags T1 .. Tn
TagsChoices ==
    { EmptyMap, "Tags" :> Str("prod") }
      \cup UNION { { "Tags" :> Map(f) : f \in [{"T" \o NumStr(i) : i \in 1..n} -> TagValues] }
                   : n \in 0..MaxTags }

\* Templates that are a Meta: with or without Name, Version and Tags
TagTemplates ==
    { "Meta" :> Map(n @@ v @@ t) :
        n \in { EmptyMap, "Name" :> Str("web") },
        v \in { EmptyMap, "Version" :> Str("1.0") },
        t \in TagsChoices }

\* The parameters given to get_tags: none, a text for Env, a list for Env
TagParams == { EmptyMap, "Env" :> Str("stage"), "Env" :> List("list", <<Str("a")>>) }

\* Compilations followed by get_tags
NextTags ==
    \/ \E fa \in BOOLEAN : Construct(fa)
    \/ cpc = "new" /\ \E tree \in TagTemplates : LoadString(tree)
    \/ CopySections
    \/ ProcessConditions
    \/ PostProcessParams
    \/ ScanCloudpuffMetadata
    \/ CleanUp
    \/ \E params \in TagParams : GetTags(params)

SpecTags == Init /\ [][NextTags]_vars

(***************************************************************************)
(* Properties of the conditional chains (Spec).                            *)
(***************************************************************************)
IsCloseNext ==
    pc = "line" /\ mi < Len(Matches(CurLine)) /\ NextMatch.groups.k = "close"

IsFuncNext(name) ==
    /\ pc = "line" /\ mi < Len(Matches(CurLine))
    /\ NextMatch.groups.k = "func" /\ NextMatch.groups.name = name

RECURSIVE ElseIfsOnTop(_)
\* The number of ElseIf frames on top of the stack, down to the frame they chain from
ElseIfsOnTop(stack) ==
    IF stack # <<>> /\ Current(stack).is_elseif
    THEN 1 + ElseIfsOnTop(SubSeq(stack, 1, Len(stack) - 1))
    ELSE 0

\* C1: when a close marker is met while the top frame belongs to a conditional
\* chain of k ElseIf frames, these k frames sit directly on the frame of the If
\* that opened the chain, so k + 1 frames stand above the frame the If was
\* opened in; the top frame's pop_count is k + 1, and the one close marker
\* pops exactly these k + 1 frames without an error.
C1_PopCountInvariant ==
    [][(IsCloseNext /\ func_stack # <<>> /\ Current(func_stack).cls = "If")
         => LET k == ElseIfsOnTop(func_stack)
                base == Len(func_stack) - k
            IN /\ base >= 2
               /\ func_stack[base].cls = "If" /\ ~func_stack[base].is_elseif
               /\ func_stack[base].pop_count = 1
               /\ Current(func_stack).pop_count = k + 1
               /\ pc' = "line" /\ error' = NoError
               /\ Len(func_stack') = base - 1]_vars

\* A chain If, ElseIf, ElseIf opened at the root has been closed by one marker.
C1_Witness ==
    /\ pc = "line" /\ mi = 1 /\ CurLine[1].k = "close"
    /\ Len(func_stack) = 1
    /\ LET c == Current(func_stack).contents
       IN /\ Len(c) = 1
          /\ c[1].t = "item" /\ c[1].cls = "If" /\ c[1].func_name = "If"
          /\ Len(c[1].if_false) = 1
          /\ c[1].if_false[1].t = "item" /\ c[1].if_false[1].is_elseif
          /\ Len(c[1].if_false[1].if_false) = 1
          /\ c[1].if_false[1].if_false[1].t = "item"
          /\ c[1].if_false[1].if_false[1].is_elseif
          /\ c[1].if_false[1].if_false[1].pop_count = 3

\* What a line of block tokens is: "text", "close", or the function's name
KindOf(l) ==
    IF l[1].k = "lit" THEN "text" ELSE IF l[1].k = "close" THEN "close" ELSE l[1].name

\* The scalar is one chain: If, text, then ElseIf, text any number of times,
\* then Else, text or not, and the close marker.
IsSimpleChain(ls) ==
    /\ Len(ls) >= 3 /\ Len(ls) % 2 = 1
    /\ KindOf(ls[1]) = "If"
    /\ KindOf(ls[Len(ls)]) = "close"
    /\ \A i \in 1..(Len(ls) - 1) :
          IF i % 2 = 0 THEN KindOf(ls[i]) = "text"
          ELSE IF i = 1 THEN TRUE
          ELSE IF i = Len(ls) - 2 THEN KindOf(ls[i]) \in {"ElseIf", "Else"}
          ELSE KindOf(ls[i]) = "ElseIf"

RECURSIVE RightNested(_, _)
\* The tree of Fn::If for the chain whose If or ElseIf is line i of ls
RightNested(ls, i) ==
    Dict("Fn::If",
         List("UncollapsibleList",
              <<Str(ls[i][1].params[1][1].text), Str(ls[i + 1][1].text)>>
                \o (IF KindOf(ls[i + 2]) = "close" THEN <<>>
                    ELSE IF KindOf(ls[i + 2]) = "Else" THEN <<Str(ls[i + 3][1].text)>>
                    ELSE <<RightNested(ls, i + 2)>>)))

RECURSIVE KeysOf(_)
\* The keys of the dicts of a result
KeysOf(x) ==
    CASE x.t = "dict" -> {x.k} \cup KeysOf(x.v)
      [] x.t = "list" -> UNION {KeysOf(x.items[i]) : i \in 1..Len(x.items)}
      [] OTHER -> {}

\* C2: the result of a chain If, ElseIf*, Else? is the right-nested tree of
\* Fn::If: each ElseIf is an Fn::If standing as the last element (the false
\* branch) of the Fn::If before it, the Else content is the false branch of the
\* innermost Fn::If, and no result holds a function named Else or ElseIf.
C2_RightNestedIf ==
    pc = "done" =>
        /\ IsSimpleChain(lines) => result = RightNested(lines, 1)
        /\ KeysOf(result) \cap {"Fn::Else", "Fn::ElseIf"} = {}

\* If (c1) {v2} ElseIf (c3) {v4} Else {v6} has been parsed.
C2_Witness ==
    /\ pc = "done"
    /\ IsSimpleChain(lines) /\ Len(lines) = 7 /\ KindOf(lines[5]) = "Else"
    /\ result = Dict("Fn::If", List("UncollapsibleList",
                  <<Str("c1"), Str("v2\n"),
                    Dict("Fn::If", List("UncollapsibleList",
                         <<Str("c3"), Str("v4\n"), Str("v6\n")>>))>>))

\* The step is parse_string leaving its loop: the scalar has no more lines.
IsFinish == pc = "lines" /\ pc' \in {"done", "error"}

\* C3: when the last line has been parsed and the stack holds more than the
\* root frame, parse_string raises ConstructorError('Unbalanced braces in
\* template') and returns no result.
C3_UnbalancedRaises ==
    [][(IsFinish /\ Len(func_stack) > 1)
         => /\ pc' = "error"
            /\ error' = ConstructorError("Unbalanced braces in template")
            /\ result' = NoResult]_vars

\* A scalar ended with a block open and the error was raised.
C3_Witness ==
    /\ pc = "error"
    /\ error = ConstructorError("Unbalanced braces in template")
    /\ Len(func_stack) > 1

\* C4: a scalar with a close marker that has no open block function to match
\* never gets a result from parse_string.
C4_SurplusCloseNoResult == unmatched => pc # "done"

\* C5: an Else met while the top frame is not an If or ElseIf frame raises
\* ConstructorError('Found Else without a matching If'), and no frame has been
\* pushed and no Else added to a frame when it is raised.
C5_ElseWithoutIf ==
    [][(IsFuncNext("Else") /\ func_stack # <<>> /\ Current(func_stack).cls # "If")
         => /\ pc' = "error"
            /\ error' = ConstructorError("Found Else without a matching If")
            /\ Len(func_stack') = Len(func_stack)
            /\ \A i \in 1..Len(func_stack') :
                 \A j \in 1..Len(func_stack'[i].contents) :
                    ~(func_stack'[i].contents[j].t = "item"
                        /\ func_stack'[i].contents[j].func_name = "Else")]_vars

\* An Else arrived in the block of the function Foo and was refused.
C5_Witness ==
    /\ pc = "error"
    /\ error = ConstructorError("Found Else without a matching If")
    /\ Len(func_stack) = 2 /\ Current(func_stack).func_name = "Foo"
    /\ KindOf(CurLine) = "Else"

\* C6: an ElseIf met while the top frame is not an If or ElseIf frame raises
\* ConstructorError('Found ElseIf without a matching If or ElseIf').
C6_ElseIfWithoutIf ==
    [][(IsFuncNext("ElseIf") /\ func_stack # <<>> /\ Current(func_stack).cls # "If")
         => /\ pc' = "error"
            /\ error' = ConstructorError("Found ElseIf without a matching If or ElseIf")]_vars

\* The conditionals closed at the top level of the scalar
ClosedIfs ==
    IF Len(func_stack) # 1 THEN {}
    ELSE {c \in {func_stack[1].contents[i] : i \in 1..Len(func_stack[1].contents)} :
            c.t = "item" /\ c.cls = "If"}

\* C7: every closed If serializes to {'Fn::If': L} with L the condition, one
\* result for the true branch and, only when the false bucket received content,
\* one result for the false branch.
C7_IfListLength ==
    \A f \in ClosedIfs :
        LET s == Serialize(f)
        IN /\ s.k = "Fn::If"
           /\ Len(s.v.items) = Len(f.params) + (IF f.if_false = <<>> THEN 1 ELSE 2)

(***************************************************************************)
(* Properties of inline text (SpecText).                                   *)
(***************************************************************************)
IsBase64(x) == x.t = "dict" /\ x.k = "Fn::Base64"

\* The result before process_func is applied to it
Unwrapped == IF process_func = "None" THEN result ELSE result.v

\* C8: the content sequence c of the root frame is normalized to its one
\* element when it has one; to {'Fn::Join': ['', c]}, the items in their
\* order, when it has several and is no VarsStringsList; and to c itself,
\* unchanged and not joined, when it is a VarsStringsList of several items.
C8_ContentNormalization ==
    pc = "done" =>
        LET c == Current(func_stack).contents
            vsl == NormalizeVarsList(List("list", c)).cls = "VarsStringsList"
        IN /\ Len(c) >= 1
           /\ Len(c) = 1 => Unwrapped = c[1]
           /\ (Len(c) > 1 /\ ~vsl)
                => Unwrapped = Dict("Fn::Join", List("list", <<Str(""), List("list", c)>>))
           /\ (Len(c) > 1 /\ vsl) => Unwrapped = List("VarsStringsList", c)

\* A content of a literal and an unresolved variable came back unjoined.
C8_Witness ==
    /\ pc = "done"
    /\ Len(Current(func_stack).contents) > 1
    /\ result.t = "list" /\ result.cls = "VarsStringsList"
    /\ \E i \in 1..Len(result.items) : result.items[i].t = "str"

\* C9 as stated: for a scalar whose first line is the sentinel, parse_string
\* returns {'Fn::Base64': R}, R being what parse_string returns for the scalar
\* without that line; a scalar without the sentinel is not wrapped.
C9_Base64OfRest ==
    pc = "done" =>
        IF lines[1] \in SentinelLines
        THEN /\ ParseString(Tail(lines)).err = NoError
             /\ result = Dict("Fn::Base64", ParseString(Tail(lines)).val)
        ELSE ~IsBase64(result)

\* The contents of the top frame that are the text of a sentinel line
SentinelContents ==
    {i \in 1..Len(Current(func_stack).contents) :
        LET x == Current(func_stack).contents[i]
        IN x.t = "str" /\ Strip(x.v) = "__base64__"}

\* C9, amended: for a scalar whose first line is the sentinel, parse_string
\* returns {'Fn::Base64': R}; R is what parse_string returns for the scalar
\* without that line when the second line is not the sentinel too.  The first
\* line is no content: only later sentinel lines are, as literal text, and
\* such a second line is the first content of R.  A scalar without the
\* sentinel is not wrapped.
C9_Base64OfRestOneSentinel ==
    pc = "done" =>
        IF lines[1] \in SentinelLines
        THEN /\ IsBase64(result)
             /\ Len(lines) >= 2
             /\ Cardinality(SentinelContents)
                  = Cardinality({j \in 2..Len(lines) : lines[j] \in SentinelLines})
             /\ IF lines[2] \in SentinelLines
                THEN Current(func_stack).contents[1] = Str(LineText(lines[2]))
                ELSE /\ ParseString(Tail(lines)).err = NoError
                     /\ result.v = ParseString(Tail(lines)).val
        ELSE ~IsBase64(result)

\* A scalar with the sentinel between blanks and then text has been parsed.
C9_Witness ==
    /\ pc = "done"
    /\ lines[1] = <<Lit("  __base64__ \n")>>
    /\ Len(lines) = 2 /\ lines[2] \notin SentinelLines
    /\ IsBase64(result)

RECURSIVE Flat(_)
\* The pieces of the lines ls, in order
Flat(ls) == IF ls = <<>> THEN <<>> ELSE ls[1] \o Flat(Tail(ls))

\* The content a piece stands for
ItemOf(q) ==
    CASE q.k = "lit" -> Str(q.text)
      [] q.k = "ref" -> RefNode(q.name)
      [] OTHER -> VarReference(q.name)

DropEmpty(c) == SelectSeq(c, LAMBDA x : x # Str(""))

\* The lines handed to _parse_line so far
ParsedLines == IF lines[1] \in SentinelLines THEN Tail(lines) ELSE lines

AllContents(frame) ==
    IF frame.cls = "If" THEN frame.if_true \o frame.if_false ELSE frame.contents

\* What a parameter written as the pieces l stands for
ParamValue(l) ==
    IF Len(l) = 1 THEN ItemOf(l[1])
    ELSE List("list", [i \in 1..Len(l) |-> ItemOf(l[i])])

\* {'Fn::Name': [q1, ..., qn]} for the function token g
PlainFunction(g) ==
    Dict("Fn::" \o g.name,
         List("UncollapsibleList", [i \in 1..Len(g.params) |-> ParamValue(g.params[i])]))

\* C11: a function token without a block, <% Foo(p1, ..., pn) %>, adds to the
\* top frame one function that serializes to {'Fn::Foo': [q1, ..., qn]}, qi
\* being what pi stands for (a text, {'Ref': Name}, an unresolved variable),
\* in the order written; handling the token and its parameters raises
\* nothing, pushes and pops no frame and leaves the frames below and the
\* earlier contents of the top frame as they were.  A scalar that is this
\* one token yields {'Fn::Foo': [q1, ..., qn]}.
C11_PlainFunction ==
    [][/\ (IsFuncNext("Foo") /\ ~NextMatch.groups.open)
            => LET g == NextMatch.groups
                   n == Len(func_stack)
                   before == IF NextMatch.start > 0
                             THEN <<Str(Slice(LineText(CurLine), prev, NextMatch.start))>>
                             ELSE <<>>
                   after == AllContents(func_stack'[n])
               IN /\ error' = NoError
                  /\ Len(func_stack') = n
                  /\ \A i \in 1..(n - 1) : func_stack'[i] = func_stack[i]
                  /\ func_stack'[n].cls = func_stack[n].cls
                  /\ func_stack'[n].pop_count = func_stack[n].pop_count
                  /\ Len(after) = Len(AllContents(func_stack[n])) + Len(before) + 1
                  /\ SubSeq(after, 1, Len(after) - 1) = AllContents(func_stack[n]) \o before
                  /\ Serialize(after[Len(after)]) = PlainFunction(g)
       /\ (pc' = "done" /\ Len(lines) = 1 /\ Len(lines[1]) = 1
             /\ lines[1][1].k = "func" /\ lines[1][1].name = "Foo")
            => result' = PlainFunction(lines[1][1])]_vars

\* <% Foo (p1, @@R2, p3) %> has been parsed to {'Fn::Foo': ['p1', {'Ref': 'R2'}, 'p3']}.
C11_Witness ==
    /\ pc = "done"
    /\ lines = << <<FuncTok("Foo", << <<Lit("p1")>>, <<RefTok("R2", FALSE)>>, <<Lit("p3")>> >>,
                             FALSE, FALSE)>> >>
    /\ result = Dict("Fn::Foo",
                     List("UncollapsibleList", <<Str("p1"), RefNode("R2"), Str("p3")>>))

(***************************************************************************)
(* Variables that are not defined (SpecText).                              *)
(***************************************************************************)
IsVarNext ==
    pc = "line" /\ mi < Len(Matches(CurLine)) /\ NextMatch.groups.k = "var"

\* C12: a variable token, $$name or $${path}, of a name that is not defined
\* raises nothing: it adds the placeholder VarReference(name) to the top
\* frame, after the text that stands before it, and a scalar that is this one
\* token yields the bare placeholder.
C12_UnresolvedVar ==
    [][/\ IsVarNext
            => LET n == Len(func_stack)
                   after == func_stack'[n].contents
               IN /\ error' = NoError /\ pc' = "line"
                  /\ Len(func_stack') = n
                  /\ Len(after) >= 1
                  /\ after[Len(after)] = VarReference(NextMatch.groups.name)
                  /\ DropEmpty(SubSeq(after, 1, Len(after) - 1))
                       = DropEmpty(func_stack[n].contents
                                    \o <<Str(Slice(LineText(CurLine), prev, NextMatch.start))>>)
       /\ (pc' = "done" /\ Len(Flat(ParsedLines)) = 1 /\ Flat(ParsedLines)[1].k = "var")
            => /\ Unwrapped' = VarReference(Flat(ParsedLines)[1].name)
               /\ error' = NoError]_vars

\* The scalar $${w.u1} has been parsed to the bare placeholder.
C12_Witness ==
    /\ pc = "done"
    /\ lines = << <<VarTok("w.u1", TRUE)>> >>
    /\ result = VarReference("w.u1")

(***************************************************************************)
(* Documents of variables and macro calls (SpecReader).                    *)
(***************************************************************************)
\* The names of the placeholders left in a value
Placeholders(v) ==
    IF v.t = "var" THEN {v.name}
    ELSE IF v.t = "list" THEN {v.items[i].name : i \in {j \in 1..Len(v.items) : v.items[j].t = "var"}}
    ELSE {}

\* C13: when entry N of a !vars document is processed, the table holds the
\* variables of the entries 1..N-1 and no other; the value stored for entry N
\* is its text with every reference to a variable of that table replaced by
\* the variable's value (a chain x1 -> x2 -> x3 resolves fully), a reference
\* to a variable not yet defined (entry N itself or a later entry) stays a
\* placeholder, and the values stored for earlier entries are not changed by
\* the later definition.
C13_VarsInDeclarationOrder ==
    [][(Len(ventries') = Len(ventries) + 1)
         => LET e == ventries'[Len(ventries')]
                refs == {i \in 1..Len(e.value) : e.value[i].k = "var"}
                text(i) == IF e.value[i].k = "lit" THEN e.value[i].text
                           ELSE variables[e.value[i].name].v
            IN /\ rerror' = NoError
               /\ DOMAIN variables = {ventries[i].name : i \in 1..Len(ventries)}
               /\ DOMAIN variables' = DOMAIN variables \cup {e.name}
               /\ \A n \in DOMAIN variables \ {e.name} : variables'[n] = variables[n]
               /\ (\A i \in refs : /\ e.value[i].name \in DOMAIN variables
                                     /\ variables[e.value[i].name].t = "str")
                    => variables'[e.name]
                         = Str(JoinTexts([i \in 1..Len(e.value) |-> text(i)], ""))
               /\ \A i \in refs :
                     e.value[i].name \notin DOMAIN variables
                       => e.value[i].name \in Placeholders(variables'[e.name])]_vars

\* x1: v1, x2: $${x1}-s2, x3: $${x2}-s3 has been read, and x3 is v1-s2-s3.
C13_Witness ==
    /\ Len(ventries) = 3
    /\ ventries[2].value = <<VarTok("x1", TRUE), Lit("-s2")>>
    /\ ventries[3].value = <<VarTok("x2", TRUE), Lit("-s3")>>
    /\ variables = ("x1" :> Str("v1")) @@ ("x2" :> Str("v1-s2")) @@ ("x3" :> Str("v1-s2-s3"))

\* The value a parameter has in the call being expanded
ScopeValue(n) ==
    IF n \in DOMAIN call.overrides THEN call.overrides[n] ELSE call.def.defaultParams[n]

\* C14: when a macro call returns, the macro expanded is the one at the
\* call's path (a plain name or a dotted path into a namespace), and every
\* entry of its content that is a parameter is rendered to the call's value
\* of the parameter when the call names it, and to its default otherwise.
C14_MacroParameterScope ==
    [][(rpc = "macro" /\ rpc' = "doc")
         => /\ call.path = "m" => call.def = MacroTable.m["m"]
            /\ call.path = "ns.m" => call.def = MacroTable.m["ns"].m["m"]
            /\ call.key \in DOMAIN rdoc'
            /\ rdoc'[call.key].t = "map"
            /\ DOMAIN rdoc'[call.key].m = {call.def.content[i].key : i \in 1..Len(call.def.content)}
            /\ \A i \in 1..Len(call.def.content) :
                  LET c == call.def.content[i]
                  IN (Len(c.src) = 1 /\ c.src[1].k = "var")
                       => rdoc'[call.key].m[c.key] = ScopeValue(c.src[1].name)]_vars

\* The macro ns.m, called with p2: o2, has been rendered with the default of x1.
C14_Witness ==
    /\ rpc = "doc"
    /\ call # NoResult
    /\ call.path = "ns.m"
    /\ call.overrides = ("p2" :> Str("o2"))
    /\ call.key \in DOMAIN rdoc
    /\ rdoc[call.key] = Map(("key1" :> Str("e1")) @@ ("key2" :> Str("o2")))

\* C15: outside the expansion of a macro, whether the last one returned or
\* failed partway, the variable table is the one the !vars documents left:
\* no parameter of a macro is defined in it or shadows a variable of its name.
C15_MacroScopeRestored ==
    rpc # "macro" => variables = outer

\* The rendering of a macro failed partway while its parameter x1 shadowed
\* the variable x1, and the variable has its value again.
C15_Witness ==
    /\ rpc = "error"
    /\ call # NoResult
    /\ call.path = "bad"
    /\ Len(call.todo) = 1
    /\ "x1" \in DOMAIN outer
    /\ variables["x1"] = Str("v1")

(***************************************************************************)
(* The compiled document (SpecCompile).                                    *)
(***************************************************************************)
\* Meta as the template has it
WrittenMeta == rdoc["Meta"].m

\* C16: after load_string, doc['AWSTemplateFormatVersion'] is '2010-09-09';
\* when Meta has a Description, doc['Description'] is that description,
\* followed by ' [v<Version>]' exactly when Meta has a Version; when Meta has
\* no Description, doc has no Description, with or without a Version.
C16_Header ==
    cpc = "done" =>
        /\ "AWSTemplateFormatVersion" \in DOMAIN doc
        /\ doc["AWSTemplateFormatVersion"] = Str("2010-09-09")
        /\ IF "Description" \in DOMAIN WrittenMeta
           THEN /\ "Description" \in DOMAIN doc
                /\ doc["Description"]
                     = IF "Version" \in DOMAIN WrittenMeta
                       THEN Str(WrittenMeta["Description"].v \o " [v"
                                  \o WrittenMeta["Version"].v \o "]")
                       ELSE WrittenMeta["Description"]
           ELSE "Description" \notin DOMAIN doc

\* A template with the Meta of test_compiling has been compiled: its
\* description is 'My description. [v1.0]'.
C16_Witness ==
    /\ cpc = "done"
    /\ "Description" \in DOMAIN doc
    /\ doc["Description"] = Str("My description. [v1.0]")

\* The sections that hold something at the end of the compile: those the
\* template has with a content, Conditions when a condition was hoisted,
\* Outputs when outputs were made for the AMIs
UsedSections ==
    {s \in SECTIONS :
        \/ s \in DOMAIN rdoc /\ rdoc[s] # Map(EmptyMap)
        \/ s = "Conditions" /\ DOMAIN if_conditions # {}
        \/ s = "Outputs" /\ ami_outputs # <<>>}

\* C17: after load_string, the keys of doc are AWSTemplateFormatVersion,
\* Description when Meta has one, and the sections that hold something at
\* the end of the compile; no other key of the template (junk, Meta) is a
\* key of doc, and no section of doc is empty.
C17_KeySet ==
    cpc = "done" =>
        /\ DOMAIN doc = {"AWSTemplateFormatVersion"}
                          \cup (IF "Description" \in DOMAIN WrittenMeta
                                THEN {"Description"} ELSE {})
                          \cup UsedSections
        /\ \A s \in SECTIONS \cap DOMAIN doc : doc[s] # Map(EmptyMap)
        /\ DOMAIN doc \cap {"junk", "Meta"} = {}

\* A template with junk, without parameters and resources, has been compiled:
\* junk is dropped, and so are the two sections that were left empty.
C17_Witness ==
    /\ cpc = "done"
    /\ "junk" \in DOMAIN rdoc
    /\ DOMAIN doc = {"AWSTemplateFormatVersion", "Description",
                      "Mappings", "Conditions", "Outputs"}

\* An inline If stands in the tree
InlineIfIn(tree) == DOMAIN HoistTree(tree, EmptyMap).conds # {}

\* C18 as stated: for a template without inline conditionals that holds the
\* five sections, load_string succeeds and each section of doc equals the
\* section as the template has it, whatever the sections hold (parameters
\* that are plain scalars included).
C18_RoundTrip ==
    (/\ cpc \in {"done", "error"}
     /\ SECTIONS \subseteq DOMAIN rdoc
     /\ "Meta" \in DOMAIN rdoc
     /\ ~InlineIfIn(rdoc["Resources"]) /\ ~InlineIfIn(rdoc["Conditions"]))
        => /\ cpc = "done"
           /\ \A s \in SECTIONS : s \in DOMAIN doc /\ doc[s] = rdoc[s]

\* C19 as stated: after load_string, for every parameter p of the template,
\* doc['Parameters'][p] has neither LookupFromStack nor Required;
\* required_params[p] is defined, true when Required was absent or 'true' in
\* any case and false otherwise; stack_param_lookups[p] is defined exactly
\* when p had a LookupFromStack, and is then its value.
C19_ParameterDirectives ==
    (cpc = "done" /\ "Parameters" \in DOMAIN rdoc) =>
        \A p \in DOMAIN rdoc["Parameters"].m :
            LET written == rdoc["Parameters"].m[p].m
            IN /\ "Parameters" \in DOMAIN doc
               /\ p \in DOMAIN doc["Parameters"].m
               /\ DOMAIN doc["Parameters"].m[p].m \cap {"LookupFromStack", "Required"} = {}
               /\ p \in DOMAIN required_params
               /\ required_params[p]
                    = (\/ "Required" \notin DOMAIN written
                       \/ written["Required"].v \in {"true", "True", "TRUE"})
               /\ (p \in DOMAIN stack_param_lookups) = ("LookupFromStack" \in DOMAIN written)
               /\ "LookupFromStack" \in DOMAIN written
                    => stack_param_lookups[p] = written["LookupFromStack"]

\* The Outputs of doc, empty when doc has none
DocOutputs == IF "Outputs" \in DOMAIN doc THEN doc["Outputs"].m ELSE EmptyMap

\* The resources of the template that are an AWS::EC2::Instance whose
\* Metadata.CloudPuff has AMINameFormat
AMIResources ==
    IF "Resources" \notin DOMAIN rdoc THEN {}
    ELSE {r \in DOMAIN rdoc["Resources"].m :
            LET x == rdoc["Resources"].m[r]
            IN /\ x.t = "map"
               /\ "Type" \in DOMAIN x.m /\ x.m["Type"] = Str("AWS::EC2::Instance")
               /\ "Metadata" \in DOMAIN x.m
               /\ "CloudPuff" \in DOMAIN x.m["Metadata"].m
               /\ "AMINameFormat" \in DOMAIN x.m["Metadata"].m["CloudPuff"].m}

\* C20 as stated: compiled with for_amis, the Outputs hold the three keys
\* CloudPuff<R>PreviousAMI, CloudPuff<R>InstanceID and CloudPuff<R>AMINameFormat
\* of every instance R that has an AMINameFormat, and every key recorded in
\* ami_outputs is a key of the Outputs; compiled without for_amis, the
\* Outputs are those of the template and ami_outputs is empty.
C20_AMIOutputs ==
    cpc = "done" =>
        IF for_amis
        THEN /\ \A r \in AMIResources :
                   {"CloudPuff" \o r \o "PreviousAMI", "CloudPuff" \o r \o "InstanceID",
                    "CloudPuff" \o r \o "AMINameFormat"} \subseteq DOMAIN DocOutputs
             /\ \A i \in 1..Len(ami_outputs) :
                   {ami_outputs[i].outputs.previous_ami_key,
                    ami_outputs[i].outputs.instance_id_key,
                    ami_outputs[i].outputs.name_format_key} \subseteq DOMAIN DocOutputs
        ELSE /\ ami_outputs = <<>>
             /\ DocOutputs = (IF "Outputs" \in DOMAIN rdoc THEN rdoc["Outputs"].m ELSE EmptyMap)

(***************************************************************************)
(* Else and ElseIf in an If frame (SpecCond, Spec).                        *)
(***************************************************************************)
\* The index in line l of the piece of its j-th match
MatchPiece(l, j) == SelectSeq([i \in 1..Len(l) |-> i], LAMBDA i : l[i].k # "lit")[j]

\* The next token stands right after the opening token of an If or ElseIf:
\* that token is the piece before it on its line, or the last piece of the
\* line before when it starts its line
RightAfterIfOpen ==
    /\ pc = "line" /\ mi < Len(Matches(CurLine))
    /\ LET i == MatchPiece(CurLine, mi + 1)
           before == IF i > 1 THEN <<CurLine[i - 1]>>
                     ELSE IF Len(lines) > 1
                     THEN <<lines[Len(lines) - 1][Len(lines[Len(lines) - 1])]>>
                     ELSE <<>>
       IN /\ before # <<>>
          /\ before[1].k = "func" /\ before[1].name \in {"If", "ElseIf"} /\ before[1].open

\* The next token is an Else or an ElseIf and the top frame is an If frame
ElseArrivesInIf ==
    /\ pc = "line" /\ mi < Len(Matches(CurLine))
    /\ NextMatch.groups.k = "func" /\ NextMatch.groups.name \in {"Else", "ElseIf"}
    /\ func_stack # <<>> /\ Current(func_stack).cls = "If"

\* C21 as stated: an Else or ElseIf that arrives in an If frame right after
\* the opening token of that frame, on the next line or on the same line,
\* raises ConstructorError('Found <name> without a "true" value in the If').
C21_ElseWithoutTrueValue ==
    [][(ElseArrivesInIf /\ RightAfterIfOpen)
         => /\ pc' = "error"
            /\ error' = ConstructorError("Found " \o NextMatch.groups.name
                                           \o " without a \"true\" value in the If")]_vars

\* The top frame is the frame of an If, or of an ElseIf of its chain, that
\* has accepted an Else: its content goes to the if-false list, and it was no
\* ElseIf that made the switch (an ElseIf stays in that list)
ElseAcceptedByTop ==
    /\ func_stack # <<>>
    /\ Current(func_stack).cls = "If" /\ Current(func_stack).func_name = "If"
    /\ Current(func_stack).cur = "false"
    /\ \A i \in 1..Len(Current(func_stack).if_false) :
          ~(Current(func_stack).if_false[i].t = "item"
              /\ Current(func_stack).if_false[i].is_elseif)

\* C22 as stated: once an If frame has accepted an Else, every later Else or
\* ElseIf that arrives in that frame raises ConstructorError('Found <name>
\* after an Else') and is not accepted.
C22_AtMostOneElse ==
    [][(ElseArrivesInIf /\ ElseAcceptedByTop)
         => /\ pc' = "error"
            /\ error' = ConstructorError("Found " \o NextMatch.groups.name
                                           \o " after an Else")]_vars

(***************************************************************************)
(* The hoisted conditions (SpecCompile).                                   *)
(***************************************************************************)
\* The section s of the mapping d, empty when d has none
Section(d, s) == IF s \in DOMAIN d THEN d[s] ELSE Map(EmptyMap)

RECURSIVE InlineIfs(_)
\* The inline Ifs of a tree
InlineIfs(tree) ==
    CASE tree.t = "map" -> UNION { InlineIfs(tree.m[k]) : k \in DOMAIN tree.m }
      [] tree.t = "dict" /\ tree.k = "Fn::If" -> {tree}
      [] OTHER -> {}

\* The condition expressions of the inline Ifs of a tree
WrittenConditions(tree) == { x.v.items[1] : x \in InlineIfs(tree) }

\* C23: after load_string, the named conditions of template_state.if_conditions
\* are those of the inline Ifs written in Conditions and Resources, each is
\* an entry of doc['Conditions'] with its condition expression (so the section
\* is there when a condition was hoisted), and the inline Ifs of Parameters,
\* Mappings and Outputs are as they were written.
C23_HoistedConditions ==
    cpc = "done" =>
        /\ { if_conditions[n] : n \in DOMAIN if_conditions }
             = WrittenConditions(Section(rdoc, "Conditions"))
                 \cup WrittenConditions(Section(rdoc, "Resources"))
        /\ \A n \in DOMAIN if_conditions :
              /\ "Conditions" \in DOMAIN doc
              /\ n \in DOMAIN doc["Conditions"].m
              /\ doc["Conditions"].m[n] = if_conditions[n]
        /\ \A s \in {"Parameters", "Mappings", "Outputs"} :
              InlineIfs(Section(doc, s)) = InlineIfs(Section(rdoc, s))

\* A template with an inline If in Conditions, in a resource, in a parameter,
\* in Mappings and in Outputs has been compiled: two conditions were hoisted.
C23_Witness ==
    /\ cpc = "done"
    /\ Cardinality(DOMAIN if_conditions) = 2
    /\ { if_conditions[n] : n \in DOMAIN if_conditions } = {Str("cc"), Str("c")}
    /\ InlineIfs(Section(doc, "Parameters")) = {InlineIf("cp")}
    /\ InlineIfs(Section(doc, "Mappings")) = {InlineIf("cm")}
    /\ InlineIfs(Section(doc, "Outputs")) = {InlineIf("co")}

(***************************************************************************)
(* A compiler used for several templates (SpecReload).                     *)
(***************************************************************************)
\* What TemplateCompiler(fa) holds after load_string of `tree`, when it is
\* the first call on the compiler and it returns: the steps of load_string
\* from the state __init__ leaves
Fresh(fa, tree) ==
    LET m == Merge("Name" :> PyNone, tree["Meta"].m)
        header == ("AWSTemplateFormatVersion" :> Str("2010-09-09"))
                    @@ (IF "Description" \in DOMAIN m
                        THEN "Description" :> Str(Describe(m)) ELSE EmptyMap)
        copied == [section \in SECTIONS |-> Get(tree, section, Map(EmptyMap))]
        c == HoistTree(copied["Conditions"], EmptyMap)
        r == HoistTree(copied["Resources"], c.conds)
        st == PostProcess([params |-> copied["Parameters"].m, lookups |-> EmptyMap,
                           required |-> EmptyMap, err |-> NoError],
                          KeysInOrder(copied["Parameters"].m, "P"))
        md == AMIMetadata(r.tree.m, KeysInOrder(r.tree.m, "R"))
        amis == IF md # <<>> /\ fa THEN md ELSE <<>>
    IN [doc |-> DropEmptySections(
                  header
                    @@ ("Parameters" :> Map(st.params))
                    @@ ("Mappings" :> copied["Mappings"])
                    @@ ("Conditions" :> IF DOMAIN r.conds = {} THEN c.tree
                                        ELSE UpdateConditions(c.tree, r.conds))
                    @@ ("Resources" :> r.tree)
                    @@ ("Outputs" :> Map(Merge(copied["Outputs"].m, AllAMIOutputs(amis))))),
        stack_param_lookups |-> st.lookups,
        required_params |-> st.required,
        ami_outputs |-> [i \in 1..Len(amis) |-> AMIOutputKeys(amis[i])]]

\* C24 as stated: when a second load_string on one compiler has returned,
\* doc, stack_param_lookups, required_params and ami_outputs are what a new
\* compiler holds after load_string of the second template alone.
C24_IndependentLoads ==
    (cpc = "done" /\ loads = 2) =>
        /\ doc = Fresh(for_amis, rdoc).doc
        /\ stack_param_lookups = Fresh(for_amis, rdoc).stack_param_lookups
        /\ required_params = Fresh(for_amis, rdoc).required_params
        /\ ami_outputs = Fresh(for_amis, rdoc).ami_outputs

(***************************************************************************)
(* The tags of the stack (SpecTags).                                       *)
(***************************************************************************)
\* The tags written in Meta, none when Meta has no Tags
MetaTags == IF "Tags" \in DOMAIN meta /\ meta["Tags"].t = "map" THEN meta["Tags"].m ELSE EmptyMap

\* The Tags of Meta, when it has any, are a mapping
TagsWellFormed == "Tags" \in DOMAIN meta => meta["Tags"].t = "map"

\* C25 as stated, for a Meta whose Tags are a mapping: get_tags(params)
\* either returns tags in which GenericStackName is the Name of Meta,
\* StackVersion is there exactly when Meta has a Version, and every tag of
\* Meta has a text value, the value given for parameter P when the tag was
\* written {'Ref': P}; or it raises InvalidTagError for one of the tags of
\* Meta.  No other error is raised.
C25_GetTags ==
    (tags # NoResult /\ TagsWellFormed) =>
        \/ /\ tags.err = NoError
           /\ tags.val["GenericStackName"] = meta["Name"]
           /\ ("StackVersion" \in DOMAIN tags.val) = ("Version" \in DOMAIN meta)
           /\ \A tag \in DOMAIN MetaTags :
                 /\ tag \in DOMAIN tags.val
                 /\ tags.val[tag].t = "str"
                 /\ IsRef(MetaTags[tag]) =>
                       /\ RefName(MetaTags[tag]) \in DOMAIN tags.params
                       /\ tags.val[tag] = tags.params[RefName(MetaTags[tag])]
        \/ /\ tags.err.cls = "InvalidTagError"
           /\ tags.err.msg \in DOMAIN MetaTags

(***************************************************************************)
(* The shape of the parser stack (Spec).                                   *)
(***************************************************************************)
\* The frames of a stack: the bottom one is the plain root item; the frame at
\* index i (the root at 0) is a function whose pop_count is at least 1 and at
\* most i, and is 1 unless the frame is an ElseIf
StackShape(stack) ==
    \A j \in 1..Len(stack) :
        IF j = 1
        THEN stack[j].cls = "Item" /\ stack[j].func_name = "" /\ stack[j].pop_count = 1
        ELSE /\ stack[j].cls # "Item"
             /\ stack[j].pop_count >= 1 /\ stack[j].pop_count <= j - 1
             /\ ~stack[j].is_elseif => stack[j].pop_count = 1

\* C26: in every state of parse_string the frames of the stack have the
\* shape above; hence a close marker met while a block is open raises
\* nothing and leaves the root frame at the bottom of the stack, and when the
\* top frame is no ElseIf (an If nested in the content of another block, or
\* any other block) the marker removes that one frame only.
C26_StackShape ==
    [][/\ StackShape(func_stack)
       /\ StackShape(func_stack')
       /\ (IsCloseNext /\ Len(func_stack) > 1)
            => /\ pc' = "line" /\ error' = NoError
               /\ Len(func_stack') >= 1
               /\ func_stack'[1].cls = "Item"
               /\ Len(func_stack') >= Len(func_stack) - Current(func_stack).pop_count
               /\ ~Current(func_stack).is_elseif
                    => Len(func_stack') = Len(func_stack) - 1]_vars

\* An If nested in the content of an If, itself in the block of Foo, has
\* been closed: the outer If and Foo are still open.
C26_Witness ==
    /\ pc = "line" /\ mi = 1 /\ CurLine[1].k = "close"
    /\ Len(func_stack) = 3
    /\ func_stack[2].func_name = "Foo"
    /\ Current(func_stack).cls = "If"
    /\ Len(Current(func_stack).if_true) = 1
    /\ Current(func_stack).if_true[1].t = "item"
    /\ Current(func_stack).if_true[1].cls = "If"
    /\ Current(func_stack).if_true[1].if_true # <<>>

====
